---- MODULE Spec2Model ----
(***************************************************************************)
(* Model of the tracking core of AEye-hub: the ByteTracker association     *)
(* engine (src/lib/supabase.ts 82-296) and the tennis frame tracker with   *)
(* its shot detector (src/lib/supabase.ts 394-922).                        *)
(*                                                                         *)
(* Numbers.  Confidences and the creation threshold are scaled by 100      *)
(* (0.5 is 50).  An IoU is an exact fraction [num, den]; den = 0 stands    *)
(* for a division by zero: num = 0 is NaN, num > 0 is +Infinity.           *)
(***************************************************************************)
EXTENDS Integers, Sequences, FiniteSets, TLC

VARIABLES
  tracks,          \* ByteTracker.tracks, the live track list
  track_id_count,  \* ByteTracker.track_id_count
  frame,           \* number of update calls made so far
  detections,      \* argument of the last update call
  before,          \* this.tracks when the last update was entered
  aged,            \* this.tracks after step 1 of the last update
  matchResults,    \* matchResults of the last update
  updated,         \* this.tracks after step 3 of the last update
  result,          \* value returned by the last update
  assigned,        \* every track_id handed out, in order of allocation
  lastHit,         \* track_id -> frame of its last match (creation included)
  gradual,         \* every frame so far had one detection moving gradually
  box1, box2,      \* arguments of a call of ByteTracker.iou
  iouDone,         \* the call has returned
  iouOut,          \* iou(box1, box2)
  iouRev,          \* iou(box2, box1)
  pairMatches,     \* a detection at box1 is matched to a lone track at box2
  previousFrame,   \* frames[frames.length - 1] of the running tennis session
  recentBallTrajectory, \* the module-level trajectory buffer
  isolatedFrame,   \* previousFrame of the same session run on its own
  isolatedTrajectory,   \* the trajectory buffer of that run
  framesTracked,   \* number of trackFrame calls made so far
  currentFrame,    \* second argument of a call of detectShot
  shotDone,        \* the call has returned
  shotOut,         \* value returned by detectShot
  conditions,      \* the object conditions built by detectShot
  scheduled,       \* a requestAnimationFrame(processFrame) callback is pending
  lastOutcome,     \* how the last run of processFrame ended
  calls,           \* the calls of trackFrame awaiting their detector responses
  started,         \* frameIndex of the last iteration of the tennis frame loop
  pushedFrames,    \* per frame pushed: its id and the id of its previousFrame
  coordinates,     \* argument of a call of MovementAnalyzer.calculateStats
  statsDone,       \* the call has returned
  stats,           \* the MovementStats it returned
  createdAt,       \* track_id -> number of the update call that created it
  advancedFrames,  \* argument frames of generateAdvancedAnalysisResult
  advancedDone,    \* the call has returned
  advancedResult,  \* the TennisAnalysisResult it returned
  summaryFrames,   \* argument frames of generateAnalysisResult
  summaryDone,     \* the call has returned
  summaryResult,   \* the TennisAnalysisResult it returned
  tracked,         \* trackFrame has been called in the observed session
  lastResponse,    \* the detector response of the last call of trackFrame
  frameBefore,     \* the previous frame given to that call
  trajectoryBefore,  \* recentBallTrajectory when that call began
  calibrationInput,  \* the tracker initialised, the video width, a move
  calibrationDone, \* the tracker is initialised and the move measured
  calibrationOut,  \* the factor returned, the distance reported
  advancedFrame,   \* the initial frame, then the frame trackFrameAdvanced returned last
  detectedObjects, \* the objects Gemini detected in the last call
  detectionFailed, \* the last call of trackFrameAdvanced took its catch branch
  advancedCalls    \* number of calls of trackFrameAdvanced in the session

trackerVars == <<tracks, track_id_count, frame, detections, before, aged,
                 matchResults, updated, result, assigned, lastHit, gradual>>

iouVars == <<box1, box2, iouDone, iouOut, iouRev, pairMatches>>

tennisVars == <<previousFrame, recentBallTrajectory, isolatedFrame,
                isolatedTrajectory, framesTracked, currentFrame, shotDone,
                shotOut, conditions>>

analyzerVars == <<scheduled, lastOutcome>>

loopVars == <<calls, started, pushedFrames>>

\* the variables of the machines other than the tracker, iou and the tennis
\* sessions
statsVars == <<coordinates, statsDone, stats>>

advancedVars == <<advancedFrames, advancedDone, advancedResult>>

summaryVars == <<summaryFrames, summaryDone, summaryResult>>

observedVars == <<tracked, lastResponse, frameBefore, trajectoryBefore>>

calibrationVars == <<calibrationInput, calibrationDone, calibrationOut>>

geminiVars == <<advancedFrame, detectedObjects, detectionFailed, advancedCalls>>

laterVars ==
  <<analyzerVars, loopVars, statsVars, createdAt,
    advancedVars, summaryVars, observedVars, calibrationVars,
    geminiVars>>
otherThanAnalyzer ==
  <<loopVars, statsVars, createdAt, advancedVars,
    summaryVars, observedVars, calibrationVars, geminiVars>>
otherThanLoop ==
  <<analyzerVars, statsVars, createdAt, advancedVars,
    summaryVars, observedVars, calibrationVars, geminiVars>>
otherThanStats ==
  <<analyzerVars, loopVars, createdAt, advancedVars,
    summaryVars, observedVars, calibrationVars, geminiVars>>
otherThanCreatedAt ==
  <<analyzerVars, loopVars, statsVars, advancedVars,
    summaryVars, observedVars, calibrationVars, geminiVars>>
otherThanAdvanced ==
  <<analyzerVars, loopVars, statsVars, createdAt,
    summaryVars, observedVars, calibrationVars, geminiVars>>
otherThanSummary ==
  <<analyzerVars, loopVars, statsVars, createdAt,
    advancedVars, observedVars, calibrationVars, geminiVars>>
otherThanObserved ==
  <<analyzerVars, loopVars, statsVars, createdAt,
    advancedVars, summaryVars, calibrationVars, geminiVars>>
otherThanCalibration ==
  <<analyzerVars, loopVars, statsVars, createdAt,
    advancedVars, summaryVars, observedVars, geminiVars>>
otherThanGemini ==
  <<analyzerVars, loopVars, statsVars, createdAt,
    advancedVars, summaryVars, observedVars, calibrationVars>>

vars == <<trackerVars, iouVars, tennisVars, laterVars>>

(***************************************************************************)
(* Bounds of the model                                                     *)
(***************************************************************************)
MaxFrames == 5
MaxTracks == 2
\* options.track_buffer of the modelled tracker instance (default 30)
track_buffer == 2
MaxTennisFrames == 4
MaxTrajectory == 3
MaxLoopFrames == 3
MaxSamples == 3
MaxSummaryFrames == 3
MaxPlainFrames == 3
MaxMove == 15

(***************************************************************************)
(* Options of the tracker                                                  *)
(***************************************************************************)
track_thresh == 50
match_thresh == [num |-> 4, den |-> 5]

\* the boxes: A1 overlaps A and A2 with IoU 9/11, A2 overlaps A with IoU 2/3,
\* Far is disjoint from all three
BoxA == <<0, 0, 10, 10>>
BoxA1 == <<1, 0, 10, 10>>
BoxA2 == <<2, 0, 10, 10>>
BoxFar == <<100, 0, 10, 10>>

Det(class, bbox, confidence) ==
  [class |-> class, bbox |-> bbox, confidence |-> confidence]

Detection ==
  { Det("ball", BoxA, 90), Det("ball", BoxA1, 30),
    Det("player", BoxA2, 50), Det("ball", BoxFar, 90) }

\* the detection lists a frame can bring: none, one, or one of three pairs
FrameInputs ==
  {<<>>} \cup { <<d>> : d \in Detection } \cup
  { <<Det("ball", BoxA, 90), Det("ball", BoxFar, 90)>>,
    <<Det("ball", BoxA1, 30), Det("ball", BoxA, 90)>>,
    <<Det("ball", BoxA1, 30), Det("ball", BoxFar, 90)>> }

Max(a, b) == IF a >= b THEN a ELSE b
Min(a, b) == IF a <= b THEN a ELSE b

(***************************************************************************)
(* Fractions with the division-by-zero values of IEEE arithmetic           *)
(***************************************************************************)
IsNaN(q) == q.den = 0 /\ q.num = 0

\* sign-normalised numerator and denominator (den >= 0)
NumOf(q) == IF q.den < 0 THEN 0 - q.num ELSE q.num
DenOf(q) == IF q.den < 0 THEN 0 - q.den ELSE q.den

\* a >= b as the JavaScript comparison evaluates it (false when either is NaN)
Geq(a, b) ==
  IF IsNaN(a) \/ IsNaN(b) THEN FALSE
  ELSE IF DenOf(a) = 0 /\ DenOf(b) = 0 THEN NumOf(a) > 0 \/ NumOf(b) < 0
  ELSE NumOf(a) * DenOf(b) >= NumOf(b) * DenOf(a)

(***************************************************************************)
(* Arithmetic on fractions, with the IEEE results of dividing by zero.     *)
(* Q(n, d) is n/d in lowest terms with d > 0; [num |-> 1, den |-> 0] is    *)
(* +Infinity, [num |-> -1, den |-> 0] is -Infinity, [num |-> 0, den |-> 0] *)
(* is NaN.                                                                 *)
(***************************************************************************)
Abs(n) == IF n < 0 THEN 0 - n ELSE n
Sgn(n) == IF n > 0 THEN 1 ELSE IF n < 0 THEN 0 - 1 ELSE 0

RECURSIVE GCD(_, _)
GCD(a, b) == IF b = 0 THEN a ELSE GCD(b, a % b)

Q(n, d) ==
  IF d = 0 THEN [num |-> Sgn(n), den |-> 0]
  ELSE LET g == GCD(Abs(n), Abs(d))
       IN [num |-> (Sgn(d) * n) \div g, den |-> Abs(d) \div g]

QInt(n) == [num |-> n, den |-> 1]
QNaN == [num |-> 0, den |-> 0]
IsInf(q) == q.den = 0 /\ q.num # 0
IsZero(q) == q.den # 0 /\ q.num = 0

QNeg(a) == [num |-> 0 - a.num, den |-> a.den]

QAdd(a, b) ==
  IF IsNaN(a) \/ IsNaN(b) THEN QNaN
  ELSE IF IsInf(a) /\ IsInf(b) THEN (IF a.num = b.num THEN a ELSE QNaN)
  ELSE IF IsInf(a) THEN a
  ELSE IF IsInf(b) THEN b
  ELSE Q(a.num * b.den + b.num * a.den, a.den * b.den)

QSub(a, b) == QAdd(a, QNeg(b))

QMul(a, b) ==
  IF IsNaN(a) \/ IsNaN(b) THEN QNaN
  ELSE IF IsInf(a) \/ IsInf(b)
    THEN (IF IsZero(a) \/ IsZero(b) THEN QNaN
          ELSE [num |-> Sgn(a.num) * Sgn(b.num), den |-> 0])
  ELSE Q(a.num * b.num, a.den * b.den)

\* a / b; a zero divisor is +0, as the difference of two equal numbers is
QDiv(a, b) ==
  IF IsNaN(a) \/ IsNaN(b) THEN QNaN
  ELSE IF IsZero(b)
    THEN (IF IsZero(a) THEN QNaN ELSE [num |-> Sgn(a.num), den |-> 0])
  ELSE IF IsInf(b)
    THEN (IF IsInf(a) THEN QNaN ELSE QInt(0))
  ELSE IF IsInf(a) THEN [num |-> Sgn(a.num) * Sgn(b.num), den |-> 0]
  ELSE Q(a.num * b.den, a.den * b.num)

\* a < b and a > b as JavaScript evaluates them (false when either is NaN)
QLt(a, b) == ~IsNaN(a) /\ ~IsNaN(b) /\ ~Geq(a, b)
QGt(a, b) == QLt(b, a)
QAbs(a) == [num |-> Abs(a.num), den |-> a.den]
QSquare(a) == QMul(a, a)

(***************************************************************************)
(* ByteTracker.iou                                                         *)
(***************************************************************************)
\* variant: the intersection is not subtracted from the union
iouUnionNotReduced(b1, b2) ==
  LET x_left == Max(b1[1], b2[1])
      y_top == Max(b1[2], b2[2])
      x_right == Min(b1[1] + b1[3], b2[1] + b2[3])
      y_bottom == Min(b1[2] + b1[4], b2[2] + b2[4])
  IN IF x_right < x_left \/ y_bottom < y_top
       THEN [num |-> 0, den |-> 1]
       ELSE [num |-> (x_right - x_left) * (y_bottom - y_top),
             den |-> b1[3] * b1[4] + b2[3] * b2[4]]

iou(b1, b2) ==
  LET box1_x1 == b1[1]
      box1_y1 == b1[2]
      box1_x2 == b1[1] + b1[3]
      box1_y2 == b1[2] + b1[4]
      box2_x1 == b2[1]
      box2_y1 == b2[2]
      box2_x2 == b2[1] + b2[3]
      box2_y2 == b2[2] + b2[4]
      x_left == Max(box1_x1, box2_x1)
      y_top == Max(box1_y1, box2_y1)
      x_right == Min(box1_x2, box2_x2)
      y_bottom == Min(box1_y2, box2_y2)
      intersection_area == (x_right - x_left) * (y_bottom - y_top)
      box1_area == (box1_x2 - box1_x1) * (box1_y2 - box1_y1)
      box2_area == (box2_x2 - box2_x1) * (box2_y2 - box2_y1)
  IN IF x_right < x_left \/ y_bottom < y_top
       THEN [num |-> 0, den |-> 1]
       ELSE [num |-> intersection_area,
             den |-> box1_area + box2_area - intersection_area]

(***************************************************************************)
(* ByteTracker.update, step 1: age the tracks                              *)
(***************************************************************************)
\* variant: a track is marked deleted once it reaches track_buffer
AgeTrackAtBuffer(track) ==
  LET t1 == [track EXCEPT !.time_since_update = @ + 1]
  IN IF t1.time_since_update >= track_buffer
       THEN [t1 EXCEPT !.state = "deleted"]
       ELSE t1

AgeTrack(track) ==
  LET t1 == [track EXCEPT !.time_since_update = @ + 1]
  IN IF t1.time_since_update > track_buffer
       THEN [t1 EXCEPT !.state = "deleted"]
       ELSE t1

AgeTracks(ts) == [i \in 1..Len(ts) |-> AgeTrack(ts[i])]

(***************************************************************************)
(* ByteTracker.matchDetectionsToTracks                                     *)
(***************************************************************************)
\* variant: the inner loop does not skip the tracks already taken
RECURSIVE BestTrackAmongAll(_, _, _, _, _, _)
BestTrackAmongAll(ts, det, t, matchedTracks, bestTrackIdx, bestIou) ==
  IF t > Len(ts) THEN bestTrackIdx
  ELSE IF Geq(iou(det.bbox, ts[t].bbox), bestIou)
    THEN BestTrackAmongAll(ts, det, t + 1, matchedTracks, t,
                           iou(det.bbox, ts[t].bbox))
  ELSE BestTrackAmongAll(ts, det, t + 1, matchedTracks, bestTrackIdx, bestIou)

\* variant: a detection below track_thresh takes no track
RECURSIVE BestTrackIfConfident(_, _, _, _, _, _)
BestTrackIfConfident(ts, det, t, matchedTracks, bestTrackIdx, bestIou) ==
  IF t > Len(ts) \/ det.confidence < track_thresh THEN bestTrackIdx
  ELSE IF t \in matchedTracks
    THEN BestTrackIfConfident(ts, det, t + 1, matchedTracks, bestTrackIdx,
                              bestIou)
  ELSE IF Geq(iou(det.bbox, ts[t].bbox), bestIou)
    THEN BestTrackIfConfident(ts, det, t + 1, matchedTracks, t,
                              iou(det.bbox, ts[t].bbox))
  ELSE BestTrackIfConfident(ts, det, t + 1, matchedTracks, bestTrackIdx,
                            bestIou)

\* inner loop over the tracks t..Len(ts) for detection d
RECURSIVE BestTrack(_, _, _, _, _, _)
BestTrack(ts, det, t, matchedTracks, bestTrackIdx, bestIou) ==
  IF t > Len(ts) THEN bestTrackIdx
  ELSE IF t \in matchedTracks
    THEN BestTrack(ts, det, t + 1, matchedTracks, bestTrackIdx, bestIou)
  ELSE IF Geq(iou(det.bbox, ts[t].bbox), bestIou)
    THEN BestTrack(ts, det, t + 1, matchedTracks, t, iou(det.bbox, ts[t].bbox))
  ELSE BestTrack(ts, det, t + 1, matchedTracks, bestTrackIdx, bestIou)

\* outer loop over the detections d..Len(dets); matches are <<d, t>> pairs
RECURSIVE GreedyMatch(_, _, _, _, _)
GreedyMatch(ts, dets, d, matchedTracks, matches) ==
  IF d > Len(dets) THEN matches
  ELSE LET bestTrackIdx == BestTrack(ts, dets[d], 1, matchedTracks, 0, match_thresh)
       IN IF bestTrackIdx # 0
            THEN GreedyMatch(ts, dets, d + 1, matchedTracks \cup {bestTrackIdx},
                             Append(matches, <<d, bestTrackIdx>>))
            ELSE GreedyMatch(ts, dets, d + 1, matchedTracks, matches)

\* the indices of 1..n not in S, ascending
RECURSIVE Unmatched(_, _, _)
Unmatched(i, n, S) ==
  IF i > n THEN <<>>
  ELSE IF i \in S THEN Unmatched(i + 1, n, S)
  ELSE <<i>> \o Unmatched(i + 1, n, S)

matchDetectionsToTracks(ts, dets) ==
  IF Len(ts) = 0
    THEN [matches |-> <<>>,
          unmatchedDetections |-> [i \in 1..Len(dets) |-> i],
          unmatchedTracks |-> <<>>]
  ELSE IF Len(dets) = 0
    THEN [matches |-> <<>>,
          unmatchedDetections |-> <<>>,
          unmatchedTracks |-> [i \in 1..Len(ts) |-> i]]
  ELSE LET matches == GreedyMatch(ts, dets, 1, {}, <<>>)
           matchedDetections == { matches[i][1] : i \in 1..Len(matches) }
           matchedTracks == { matches[i][2] : i \in 1..Len(matches) }
       IN [matches |-> matches,
           unmatchedDetections |-> Unmatched(1, Len(dets), matchedDetections),
           unmatchedTracks |-> Unmatched(1, Len(ts), matchedTracks)]

(***************************************************************************)
(* ByteTracker.update, step 3: update the matched tracks                   *)
(***************************************************************************)
\* variant: confirmed one hit early
UpdateTrackConfirmEarly(track, detection) ==
  LET t1 == [track EXCEPT !.bbox = detection.bbox,
                          !.confidence = detection.confidence,
                          !.class = detection.class,
                          !.time_since_update = 0,
                          !.hits = @ + 1,
                          !.age = @ + 1]
  IN IF t1.hits >= 2 THEN [t1 EXCEPT !.state = "confirmed"] ELSE t1

\* variant: the box of the track is not replaced by the box of the detection
UpdateTrackStaleBox(track, detection) ==
  LET t1 == [track EXCEPT !.confidence = detection.confidence,
                          !.class = detection.class,
                          !.time_since_update = 0,
                          !.hits = @ + 1,
                          !.age = @ + 1]
  IN IF t1.hits >= 3 THEN [t1 EXCEPT !.state = "confirmed"] ELSE t1

UpdateTrack(track, detection) ==
  LET t1 == [track EXCEPT !.bbox = detection.bbox,
                          !.confidence = detection.confidence,
                          !.class = detection.class,
                          !.time_since_update = 0,
                          !.hits = @ + 1,
                          !.age = @ + 1]
  IN IF t1.hits >= 3 THEN [t1 EXCEPT !.state = "confirmed"] ELSE t1

UpdateMatched(ts, dets, matches) ==
  [t \in 1..Len(ts) |->
     IF \E i \in 1..Len(matches) : matches[i][2] = t
       THEN LET i == CHOOSE j \in 1..Len(matches) : matches[j][2] = t
            IN UpdateTrack(ts[t], dets[matches[i][1]])
       ELSE ts[t]]

(***************************************************************************)
(* ByteTracker.update, step 4: create tracks for unmatched detections      *)
(***************************************************************************)
\* variant: the id taken from the length of the track list
NextTrackIdFromLength(ts, count) == Len(ts) + 1

\* ++this.track_id_count
NextTrackId(ts, count) == count + 1

NewTrack(detection, id) ==
  [class |-> detection.class,
   bbox |-> detection.bbox,
   confidence |-> detection.confidence,
   track_id |-> id,
   age |-> 1,
   hits |-> 1,
   time_since_update |-> 0,
   state |-> "tentative"]

\* variant: the threshold is compared strictly
CreatesStrict(detection) == detection.confidence > track_thresh

Creates(detection) == detection.confidence >= track_thresh

\* [tracks, count] after the unmatched detections i..Len(unm) are served
RECURSIVE CreateTracks(_, _, _, _, _)
CreateTracks(ts, count, dets, unm, i) ==
  IF i > Len(unm) THEN [tracks |-> ts, count |-> count]
  ELSE IF Creates(dets[unm[i]])
    THEN CreateTracks(Append(ts, NewTrack(dets[unm[i]], NextTrackId(ts, count))),
                      NextTrackId(ts, count), dets, unm, i + 1)
  ELSE CreateTracks(ts, count, dets, unm, i + 1)

(***************************************************************************)
(* ByteTracker.update, steps 5 and 6                                       *)
(***************************************************************************)
NotDeleted(track) == track.state # "deleted"
RemoveDeleted(ts) == SelectSeq(ts, NotDeleted)

IsActive(track) == track.state = "confirmed" \/ track.state = "tentative"
ActiveTracks(ts) == SelectSeq(ts, IsActive)

(***************************************************************************)
(* The tennis frame tracker (src/lib/supabase.ts 394-922)                  *)
(*                                                                         *)
(* Coordinates and timestamps are fractions.  A distance or a speed is     *)
(* kept as its square (distanceSq, ballSpeedSq): both are non-negative     *)
(* whenever the timestamps of a session increase, so comparing the squares *)
(* is comparing the numbers.  The player speed and the distances covered   *)
(* are sums of square roots that no decision reads; they are left out, as  *)
(* are the fields speed of a trajectory point and x, y of a tracked        *)
(* object, which are written and never read.                               *)
(***************************************************************************)
SHOT_DETECTION_DISTANCE_THRESHOLD == 100
SHOT_DETECTION_SPEED_THRESHOLD == 15
\* 0.4, on the scale of the confidences
MIN_BALL_CONFIDENCE == 40
BALL_TRAJECTORY_MEMORY == 10
COURT_WIDTH_METERS == Q(1097, 100)

\* the video of the modelled sessions and its sampling rate
VideoWidth == 1097
VideoHeight == 600
frameRate == 2

TennisObj(cx, cy, w, h, conf) ==
  [present |-> TRUE, centerX |-> cx, centerY |-> cy, width |-> w,
   height |-> h, confidence |-> conf]

\* null
NoObj ==
  [present |-> FALSE, centerX |-> QInt(0), centerY |-> QInt(0), width |-> 0,
   height |-> 0, confidence |-> 0]

\* one prediction of a detection response; x, y is the centre of its box
Pred(class, x, y, w, h, conf) ==
  [class |-> class, x |-> x, y |-> y, width |-> w, height |-> h,
   confidence |-> conf]

DistSq(a, b) ==
  QAdd(QSquare(QSub(a.centerX, b.centerX)), QSquare(QSub(a.centerY, b.centerY)))

pixelsToMeters == QDiv(COURT_WIDTH_METERS, QInt(VideoWidth))

\* the square of calculateSpeed: (distancePixels * pixelsToMeters / timeDiff
\* * 3.6) ^ 2
calculateSpeedSq(a, b, timeDiff) ==
  QDiv(QMul(DistSq(a, b), QSquare(QMul(pixelsToMeters, Q(18, 5)))),
       QSquare(timeDiff))

\* value || 0 on a squared distance: NaN and 0 give 0
OrZero(q) == IF IsNaN(q) THEN QInt(0) ELSE q

initializeTennisTracker(playerBox, ballBox, videoWidth, videoHeight) ==
  LET player == TennisObj(Q(2 * playerBox.x + playerBox.width, 2),
                          Q(2 * playerBox.y + playerBox.height, 2),
                          playerBox.width, playerBox.height, 100)
      ball == TennisObj(Q(2 * ballBox.x + ballBox.width, 2),
                        Q(2 * ballBox.y + ballBox.height, 2),
                        ballBox.width, ballBox.height, 100)
  IN [frameId |-> 0,
      timestamp |-> QInt(0),
      player |-> player,
      ball |-> ball,
      courtInfo |-> [width |-> videoWidth, height |-> videoHeight,
                     baselineY |-> QInt(playerBox.y + playerBox.height),
                     netY |-> Q(videoHeight, 2),
                     serviceLineY |-> Q(7 * videoHeight, 20)],
      distanceSq |-> DistSq(player, ball),
      isShot |-> FALSE,
      shotType |-> "undefined",
      ballSpeedSq |-> QInt(0)]

trackPlayerFromPrevious(prev) == prev.player
trackBallFromPrevious(prev) == prev.ball

\* the last three points of the trajectory
LastThree(trajectory) ==
  [i \in 1..3 |-> trajectory[Len(trajectory) - 3 + i]]

predictBallFromTrajectory(trajectory, currentTimestamp) ==
  IF Len(trajectory) < 3 THEN NoObj
  ELSE
    LET p == LastThree(trajectory)
        dt1 == QSub(p[2].timestamp, p[1].timestamp)
        dt2 == QSub(p[3].timestamp, p[2].timestamp)
        v1x == QDiv(QInt(p[2].x - p[1].x), dt1)
        v1y == QDiv(QInt(p[2].y - p[1].y), dt1)
        v2x == QDiv(QInt(p[3].x - p[2].x), dt2)
        v2y == QDiv(QInt(p[3].y - p[2].y), dt2)
        half == QDiv(QSub(p[3].timestamp, p[1].timestamp), QInt(2))
        ax == QDiv(QSub(v2x, v1x), half)
        ay == QDiv(QSub(v2y, v1y), half)
        timeDiff == QSub(currentTimestamp, p[3].timestamp)
        predictedX ==
          QAdd(QAdd(QInt(p[3].x), QMul(v2x, timeDiff)),
               QMul(QMul(QMul(Q(1, 2), ax), timeDiff), timeDiff))
        predictedY ==
          QAdd(QAdd(QInt(p[3].y), QMul(v2y, timeDiff)),
               QMul(QMul(QMul(Q(1, 2), ay), timeDiff), timeDiff))
    IN TennisObj(predictedX, predictedY, 10, 10, MIN_BALL_CONFIDENCE)

\* |atan2(cross, dot)| > pi / 6, decided on the integers: the angle is 0 for
\* cross = dot = 0, at least a right angle for dot <= 0, and otherwise
\* above 30 degrees exactly when 3 * cross^2 > dot^2
AngleAbove30(cross, dot) ==
  IF cross = 0 /\ dot = 0 THEN FALSE
  ELSE IF dot <= 0 THEN TRUE
  ELSE LET t == Q(Abs(cross), dot) IN 3 * t.num * t.num > t.den * t.den

hasChangedDirection(trajectory) ==
  IF Len(trajectory) < 3 THEN FALSE
  ELSE
    LET p == LastThree(trajectory)
        v1x == p[2].x - p[1].x
        v1y == p[2].y - p[1].y
        v2x == p[3].x - p[2].x
        v2y == p[3].y - p[2].y
    IN AngleAbove30(v1x * v2y - v1y * v2x, v1x * v2x + v1y * v2y)

isMovingAwayFromPlayer(player, currentBall, previousBall) ==
  IF ~player.present \/ ~currentBall.present \/ ~previousBall.present
  THEN FALSE
  ELSE QGt(DistSq(player, currentBall), DistSq(player, previousBall))

determineShotType(prev, cur) ==
  IF \/ ~prev.player.present \/ ~prev.ball.present
     \/ ~cur.player.present \/ ~cur.ball.present
  THEN "unknown"
  ELSE
    LET player == prev.player
        ball == prev.ball
        courtInfo == prev.courtInfo
        isNearNet ==
          QLt(QAbs(QSub(player.centerY, courtInfo.netY)), QInt(100))
        isNearBaseline ==
          QLt(QAbs(QSub(player.centerY, courtInfo.baselineY)), QInt(100))
        isBallAbovePlayer ==
          QLt(ball.centerY, QSub(player.centerY, QInt(player.height)))
        isBallOnRight == QGt(ball.centerX, player.centerX)
    IN IF isNearBaseline /\ isBallAbovePlayer THEN "serve"
       ELSE IF isNearNet THEN "volley"
       ELSE IF isBallOnRight THEN "forehand"
       ELSE "backhand"

Missing(prev, cur) ==
  \/ ~prev.player.present \/ ~prev.ball.present
  \/ ~cur.player.present \/ ~cur.ball.present

NoConditions ==
  [proximity |-> FALSE, speedIncrease |-> FALSE, directionChange |-> FALSE,
   movingAway |-> FALSE]

\* the object conditions of detectShot; (d || Infinity) < threshold is false
\* for d = 0 and for d = NaN
ShotConditions(prev, cur, trajectory) ==
  [proximity |->
     /\ ~IsZero(prev.distanceSq)
     /\ QLt(prev.distanceSq,
            QInt(SHOT_DETECTION_DISTANCE_THRESHOLD
                   * SHOT_DETECTION_DISTANCE_THRESHOLD)),
   speedIncrease |->
     QGt(cur.ballSpeedSq,
         QInt(SHOT_DETECTION_SPEED_THRESHOLD * SHOT_DETECTION_SPEED_THRESHOLD)),
   directionChange |-> hasChangedDirection(trajectory),
   movingAway |->
     isMovingAwayFromPlayer(cur.player, cur.ball,
                            prev.ball)]

\* variant: the third pair is direction change and moving away
detectShotOtherPair(prev, cur, trajectory) ==
  IF Missing(prev, cur)
  THEN [isShot |-> FALSE, shotType |-> "undefined"]
  ELSE
    LET conds == ShotConditions(prev, cur, trajectory)
        isShot == \/ conds.proximity /\ conds.speedIncrease
                  \/ conds.proximity /\ conds.directionChange
                  \/ conds.directionChange /\ conds.movingAway
    IN IF ~isShot THEN [isShot |-> FALSE, shotType |-> "undefined"]
       ELSE [isShot |-> TRUE,
             shotType |-> determineShotType(prev, cur)]

detectShot(prev, cur, trajectory) ==
  IF Missing(prev, cur)
  THEN [isShot |-> FALSE, shotType |-> "undefined"]
  ELSE
    LET conds == ShotConditions(prev, cur, trajectory)
        isShot == \/ conds.proximity /\ conds.speedIncrease
                  \/ conds.proximity /\ conds.directionChange
                  \/ conds.speedIncrease /\ conds.movingAway
    IN IF ~isShot THEN [isShot |-> FALSE, shotType |-> "undefined"]
       ELSE [isShot |-> TRUE,
             shotType |-> determineShotType(prev, cur)]

\* index of element [0] of preds sorted by descending confidence (the sort is
\* stable), 0 for an empty list
RECURSIVE Top(_, _, _)
Top(preds, i, best) ==
  IF i > Len(preds) THEN best
  ELSE Top(preds, i + 1,
           IF best = 0 \/ preds[i].confidence > preds[best].confidence
           THEN i ELSE best)

IsPlayerPred(pred) == pred.class = "player"
\* variant: a ball of confidence MIN_BALL_CONFIDENCE is accepted
IsBallPredAtThreshold(pred) ==
  pred.class = "tennis ball" /\ pred.confidence >= MIN_BALL_CONFIDENCE

IsBallPred(pred) ==
  pred.class = "tennis ball" /\ pred.confidence > MIN_BALL_CONFIDENCE

ObjOfPred(pred) ==
  TennisObj(QInt(pred.x), QInt(pred.y), pred.width, pred.height,
            pred.confidence)

PushPoint(trajectory, ball, timestamp) ==
  LET pushed == Append(trajectory,
                       [x |-> ball.centerX.num, y |-> ball.centerY.num,
                        timestamp |-> timestamp,
                        confidence |-> ball.confidence])
  IN IF Len(pushed) > BALL_TRAJECTORY_MEMORY THEN Tail(pushed) ELSE pushed

\* trackFrame: the frame it returns and the trajectory buffer it leaves.
\* response.failed is a rejected detection request (the catch branch).
trackFrame(frameId, timestamp, prev, response, trajectory) ==
  IF response.failed
  THEN [frame |->
          [frameId |-> frameId,
           timestamp |-> timestamp,
           player |-> trackPlayerFromPrevious(prev),
           ball |-> trackBallFromPrevious(prev),
           courtInfo |-> prev.courtInfo,
           distanceSq |-> prev.distanceSq,
           isShot |-> FALSE,
           shotType |-> "undefined",
           ballSpeedSq |-> QInt(0)],
        trajectory |-> trajectory]
  ELSE
    LET players == SelectSeq(response.playerPredictions, IsPlayerPred)
        balls == SelectSeq(response.ballPredictions, IsBallPred)
        player == IF players # <<>> THEN ObjOfPred(players[Top(players, 1, 0)])
                  ELSE trackPlayerFromPrevious(prev)
        detected == balls # <<>>
        ballDetection == ObjOfPred(balls[Top(balls, 1, 0)])
        predicted == predictBallFromTrajectory(trajectory, timestamp)
        ball == IF detected THEN ballDetection
                ELSE IF predicted.present THEN predicted
                ELSE trackBallFromPrevious(prev)
        after == IF detected THEN PushPoint(trajectory, ballDetection, timestamp)
                 ELSE trajectory
        distanceSq == IF player.present /\ ball.present
                      THEN OrZero(DistSq(player, ball)) ELSE QInt(0)
        ballSpeedSq ==
          IF ball.present /\ prev.ball.present
          THEN calculateSpeedSq(ball, prev.ball,
                                QSub(timestamp, prev.timestamp))
          ELSE QInt(0)
        current == [frameId |-> frameId,
                    timestamp |-> timestamp,
                    player |-> player,
                    ball |-> ball,
                    courtInfo |-> prev.courtInfo,
                    distanceSq |-> distanceSq,
                    isShot |-> FALSE,
                    shotType |-> "undefined",
                    ballSpeedSq |-> ballSpeedSq]
        shot == detectShot(prev, current, after)
    IN [frame |-> [current EXCEPT !.isShot = shot.isShot,
                                  !.shotType = shot.shotType],
        trajectory |-> after]

(***************************************************************************)
(* Inputs of the tennis tracker                                            *)
(***************************************************************************)
\* the boxes drawn by the user: the player stands at (500, 500), the ball is
\* 20 pixels to the right
PlayerBox == [x |-> 480, y |-> 450, width |-> 40, height |-> 100]
BallBox == [x |-> 515, y |-> 495, width |-> 10, height |-> 10]

\* ball at the left of the player, above the player, and far at the left
BallNear == Pred("tennis ball", 480, 500, 10, 10, 90)
BallAbove == Pred("tennis ball", 520, 380, 10, 10, 90)
BallAway == Pred("tennis ball", 260, 500, 10, 10, 90)
BallFaint == Pred("tennis ball", 480, 500, 10, 10, 40)
\* the player at the net
PlayerAtNet == Pred("player", 500, 350, 40, 100, 80)
PlayerAtBase == Pred("player", 500, 500, 40, 100, 80)

Response(players, balls) ==
  [failed |-> FALSE, playerPredictions |-> players, ballPredictions |-> balls]

Responses ==
  { [failed |-> TRUE, playerPredictions |-> <<>>, ballPredictions |-> <<>>],
    Response(<<>>, <<>>),
    Response(<<>>, <<BallNear>>),
    Response(<<>>, <<BallAbove>>),
    Response(<<>>, <<BallAway>>),
    Response(<<>>, <<BallFaint>>),
    Response(<<PlayerAtNet>>, <<>>),
    Response(<<PlayerAtNet>>, <<BallFaint, BallAway>>) }

initialFrame ==
  initializeTennisTracker(PlayerBox, BallBox, VideoWidth, VideoHeight)

\* no session is running and no call of detectShot is under way
IdleTennisVars ==
  /\ previousFrame = initialFrame
  /\ recentBallTrajectory = <<>>
  /\ isolatedFrame = initialFrame
  /\ isolatedTrajectory = <<>>
  /\ framesTracked = 0
  /\ currentFrame = initialFrame
  /\ shotDone = FALSE
  /\ shotOut = [isShot |-> FALSE, shotType |-> "undefined"]
  /\ conditions = NoConditions

(***************************************************************************)
(* The tracker as a state machine                                          *)
(***************************************************************************)
Ids(ts) == { ts[i].track_id : i \in 1..Len(ts) }
Range(f) == { f[i] : i \in DOMAIN f }

\* one detection per frame, created in the first frame, each box within
\* match_thresh of the box of the frame before
Gradual(dets, prev, first) ==
  /\ Len(dets) = 1
  /\ IF first THEN dets[1].confidence >= track_thresh
     ELSE /\ Len(prev) = 1
          /\ Geq(iou(dets[1].bbox, prev[1].bbox), match_thresh)

\* processVideo has not been called
IdleAnalyzerVars ==
  /\ scheduled = FALSE
  /\ lastOutcome = "none"

\* the frame loop of the tennis page is not running
IdleLoopVars ==
  /\ calls = <<>>
  /\ started = 0
  /\ pushedFrames = <<>>

\* MovementAnalyzer.calculateStats is not being called
IdleStatsVars ==
  /\ coordinates = <<>>
  /\ statsDone = FALSE
  /\ stats = [distance |-> QInt(0), maxSpeed |-> QInt(0),
              avgSpeed |-> QInt(0), events |-> <<>>]

\* no track has been created
IdleCreatedAt == createdAt = [id \in {} |-> 0]

\* generateAdvancedAnalysisResult is not being called
IdleAdvancedVars ==
  /\ advancedFrames = <<>>
  /\ advancedDone = FALSE
  /\ advancedResult = "none"

\* no call of trackFrame is being observed
IdleObservedVars ==
  /\ tracked = FALSE
  /\ lastResponse = Response(<<>>, <<>>)
  /\ frameBefore = initialFrame
  /\ trajectoryBefore = <<>>

\* generateAnalysisResult is not being called
IdleSummaryVars ==
  /\ summaryFrames = <<>>
  /\ summaryDone = FALSE
  /\ summaryResult = "none"

\* no tracker is being initialised
IdleCalibrationVars ==
  /\ calibrationInput = [tracker |-> "plain", videoWidth |-> VideoWidth, move |-> 0]
  /\ calibrationDone = FALSE
  /\ calibrationOut = [pixelsToMeters |-> QInt(0), distance |-> QInt(0)]

\* the ball of an advanced frame, or null
GeminiBall(cx, cy) == [present |-> TRUE, centerX |-> cx, centerY |-> cy]
NoGeminiBall == [present |-> FALSE, centerX |-> QInt(0), centerY |-> QInt(0)]

\* no advanced tracking session is running
IdleGeminiVars ==
  /\ advancedFrame = [frameId |-> 0, players |-> <<>>, ball |-> NoGeminiBall,
                      courtInfo |-> [width |-> 0, height |-> 0]]
  /\ detectedObjects = <<>>
  /\ detectionFailed = FALSE
  /\ advancedCalls = 0

IdleLaterVars ==
  /\ IdleAnalyzerVars
  /\ IdleLoopVars
  /\ IdleStatsVars
  /\ IdleCreatedAt
  /\ IdleAdvancedVars
  /\ IdleSummaryVars
  /\ IdleObservedVars
  /\ IdleCalibrationVars
  /\ IdleGeminiVars

InitTrackerVars ==
  /\ tracks = <<>>
  /\ track_id_count = 0
  /\ frame = 0
  /\ detections = <<>>
  /\ before = <<>>
  /\ aged = <<>>
  /\ matchResults = [matches |-> <<>>, unmatchedDetections |-> <<>>,
                     unmatchedTracks |-> <<>>]
  /\ updated = <<>>
  /\ result = <<>>
  /\ assigned = <<>>
  /\ lastHit = [id \in {} |-> 0]
  /\ gradual = TRUE

\* no call of iou is under way
IdleIouVars ==
  /\ box1 = <<0, 0, 0, 0>>
  /\ box2 = <<0, 0, 0, 0>>
  /\ iouDone = FALSE
  /\ iouOut = [num |-> 0, den |-> 1]
  /\ iouRev = [num |-> 0, den |-> 1]
  /\ pairMatches = FALSE

InitTracker ==
  InitTrackerVars /\ IdleIouVars /\ IdleTennisVars /\ IdleLaterVars

Update(dets) ==
  \E a \in {AgeTracks(tracks)} :
  \E m \in {matchDetectionsToTracks(a, dets)} :
  \E u \in {UpdateMatched(a, dets, m.matches)} :
  \E c \in {CreateTracks(u, track_id_count, dets, m.unmatchedDetections, 1)} :
  \E kept \in {RemoveDeleted(c.tracks)} :
     /\ frame < MaxFrames
     /\ Len(kept) <= MaxTracks
     /\ frame' = frame + 1
     /\ detections' = dets
     /\ before' = tracks
     /\ aged' = a
     /\ matchResults' = m
     /\ updated' = u
     /\ tracks' = kept
     /\ track_id_count' = c.count
     /\ result' = ActiveTracks(kept)
     /\ assigned' = assigned \o
                    [i \in 1..(Len(c.tracks) - Len(u)) |-> c.tracks[Len(u) + i].track_id]
     /\ lastHit' = [id \in Ids(c.tracks) \cup DOMAIN lastHit |->
                      IF (\E i \in (Len(u) + 1)..Len(c.tracks) : c.tracks[i].track_id = id)
                           \/ \E i \in 1..Len(m.matches) : u[m.matches[i][2]].track_id = id
                        THEN frame + 1
                        ELSE lastHit[id]]
     /\ gradual' = (gradual /\ Gradual(dets, detections, frame = 0))

NextTracker ==
  /\ \E dets \in FrameInputs : Update(dets)
  /\ UNCHANGED <<iouVars, tennisVars, laterVars>>

Spec == InitTracker /\ [][NextTracker]_vars

(***************************************************************************)
(* ByteTracker.iou and the match decision on pairs of boxes                *)
(***************************************************************************)
\* boxes with sides 0..5 near the origin
IouBoxes == (0..1) \X (0..1) \X {0, 1, 2, 4, 5} \X {0, 1, 2}

InitIou ==
  /\ InitTrackerVars
  /\ IdleTennisVars
  /\ IdleLaterVars
  /\ box1 \in IouBoxes
  /\ box2 \in IouBoxes
  /\ iouDone = FALSE
  /\ iouOut = [num |-> 0, den |-> 1]
  /\ iouRev = [num |-> 0, den |-> 1]
  /\ pairMatches = FALSE

\* iou on the two boxes, and the matching of a detection at box1 against a
\* tracker whose only track is at box2
ComputeIou ==
  /\ ~iouDone
  /\ iouDone' = TRUE
  /\ iouOut' = iou(box1, box2)
  /\ iouRev' = iou(box2, box1)
  /\ pairMatches' =
       (matchDetectionsToTracks(<<NewTrack(Det("ball", box2, 90), 1)>>,
                                <<Det("ball", box1, 90)>>).matches # <<>>)
  /\ UNCHANGED <<box1, box2, trackerVars, tennisVars, laterVars>>

SpecIou == InitIou /\ [][ComputeIou]_vars

(***************************************************************************)
(* Analysis sessions of the tennis page (src/app/tennis/page.tsx 56-175):  *)
(* each session starts from initializeTennisTracker and feeds its frames   *)
(* to trackFrame in order; recentBallTrajectory belongs to the module and  *)
(* outlives the session.  isolatedFrame and isolatedTrajectory follow the  *)
(* same session run on a freshly loaded module.                            *)
(***************************************************************************)
InitSessions ==
  InitTrackerVars /\ IdleIouVars /\ IdleTennisVars /\ IdleLaterVars

\* initializeTennisTracker called for the next video
StartSessionStep ==
  /\ previousFrame.frameId > 0
  /\ framesTracked < MaxTennisFrames
  /\ previousFrame' = initialFrame
  /\ isolatedFrame' = initialFrame
  /\ isolatedTrajectory' = <<>>
  /\ UNCHANGED <<recentBallTrajectory, framesTracked, currentFrame, shotDone,
                 shotOut, conditions, trackerVars, iouVars>>

StartSession == StartSessionStep /\ UNCHANGED laterVars

\* one iteration of the frame loop: trackFrame on the frame pushed last
TrackFrameStep(response) ==
  \E frameIndex \in {previousFrame.frameId + 1} :
  \E timestamp \in {Q(frameIndex, frameRate)} :
  \E out \in {trackFrame(frameIndex, timestamp, previousFrame, response,
                         recentBallTrajectory)} :
  \E alone \in {trackFrame(frameIndex, timestamp, isolatedFrame, response,
                           isolatedTrajectory)} :
     /\ framesTracked < MaxTennisFrames
     /\ framesTracked' = framesTracked + 1
     /\ previousFrame' = out.frame
     /\ recentBallTrajectory' = out.trajectory
     /\ isolatedFrame' = alone.frame
     /\ isolatedTrajectory' = alone.trajectory
     /\ UNCHANGED <<currentFrame, shotDone, shotOut, conditions, trackerVars,
                    iouVars>>

TrackFrame(response) == TrackFrameStep(response) /\ UNCHANGED laterVars

NextSessions ==
  \/ StartSession
  \/ \E response \in Responses : TrackFrame(response)

SpecSessions == InitSessions /\ [][NextSessions]_vars

(***************************************************************************)
(* The sessions with the arguments of the last call of trackFrame kept     *)
(***************************************************************************)
\* a failed request, no ball, a ball, a ball at the confidence threshold,
\* and that ball beside an acceptable one
ObservedResponses ==
  { [failed |-> TRUE, playerPredictions |-> <<>>, ballPredictions |-> <<>>],
    Response(<<>>, <<>>),
    Response(<<>>, <<BallNear>>),
    Response(<<>>, <<BallFaint>>),
    Response(<<PlayerAtNet>>, <<BallFaint, BallAway>>) }

InitObserved == InitSessions

StartSessionObserved ==
  /\ StartSessionStep
  /\ tracked' = FALSE
  /\ UNCHANGED <<lastResponse, frameBefore, trajectoryBefore,
                 otherThanObserved>>

TrackFrameObserved(response) ==
  /\ TrackFrameStep(response)
  /\ tracked' = TRUE
  /\ lastResponse' = response
  /\ frameBefore' = previousFrame
  /\ trajectoryBefore' = recentBallTrajectory
  /\ UNCHANGED otherThanObserved

NextObserved ==
  \/ StartSessionObserved
  \/ \E response \in ObservedResponses : TrackFrameObserved(response)

SpecObserved == InitObserved /\ [][NextObserved]_vars

(***************************************************************************)
(* detectShot on pairs of frames and trajectory buffers                    *)
(***************************************************************************)
ShotPlayers == {NoObj, ObjOfPred(PlayerAtBase), ObjOfPred(PlayerAtNet)}
ShotBalls ==
  {NoObj, ObjOfPred(BallNear), ObjOfPred(BallAbove), ObjOfPred(BallAway)}
ShotSpeedsSq == {QInt(0), QInt(225), QInt(400)}

\* the ball at the centre of the player at the baseline
BallOnPlayer == Pred("tennis ball", 500, 500, 10, 10, 90)
ShotPreviousBalls == ShotBalls \cup {ObjOfPred(BallOnPlayer)}

ShotFrame(frameId, player, ball, ballSpeedSq) ==
  [frameId |-> frameId,
   timestamp |-> Q(frameId, frameRate),
   player |-> player,
   ball |-> ball,
   courtInfo |-> initialFrame.courtInfo,
   distanceSq |-> IF player.present /\ ball.present
                  THEN OrZero(DistSq(player, ball)) ELSE QInt(0),
   isShot |-> FALSE,
   shotType |-> "undefined",
   ballSpeedSq |-> ballSpeedSq]

ShotPoints == {BallNear, BallAbove, BallAway}

ShotTrajectories ==
  UNION { { [i \in 1..n |-> [x |-> f[i].x, y |-> f[i].y,
                             timestamp |-> Q(i, frameRate),
                             confidence |-> f[i].confidence]]
            : f \in [1..n -> ShotPoints] } : n \in 0..MaxTrajectory }

InitShot ==
  /\ InitTrackerVars
  /\ IdleIouVars
  /\ IdleLaterVars
  /\ \E p \in ShotPlayers, b \in ShotPreviousBalls :
        previousFrame = ShotFrame(MaxTrajectory, p, b, QInt(0))
  /\ \E p \in ShotPlayers, b \in ShotBalls, s \in ShotSpeedsSq :
        currentFrame = ShotFrame(MaxTrajectory + 1, p, b, s)
  /\ recentBallTrajectory \in ShotTrajectories
  /\ isolatedFrame = initialFrame
  /\ isolatedTrajectory = <<>>
  /\ framesTracked = 0
  /\ shotDone = FALSE
  /\ shotOut = [isShot |-> FALSE, shotType |-> "undefined"]
  /\ conditions = NoConditions

ApplyDetectShot ==
  /\ ~shotDone
  /\ shotDone' = TRUE
  /\ shotOut' = detectShot(previousFrame, currentFrame, recentBallTrajectory)
  /\ conditions' =
       IF Missing(previousFrame, currentFrame) THEN NoConditions
       ELSE ShotConditions(previousFrame, currentFrame, recentBallTrajectory)
  /\ UNCHANGED <<previousFrame, currentFrame, recentBallTrajectory,
                 isolatedFrame, isolatedTrajectory, framesTracked,
                 trackerVars, iouVars, laterVars>>

SpecShot == InitShot /\ [][ApplyDetectShot]_vars

(***************************************************************************)
(* The frame loop of the video analyzer                                    *)
(* (src/components/VideoAnalyzerNew.tsx 164-296): processFrame runs from a *)
(* requestAnimationFrame callback, awaits detectObjects, feeds the         *)
(* detections to the tracker and schedules itself again while the video    *)
(* has not reached its end.  A rejected detection request is rethrown by   *)
(* detectObjects and lands in the catch block of processFrame.             *)
(***************************************************************************)
InitAnalyzer ==
  /\ InitTrackerVars
  /\ IdleIouVars
  /\ IdleTennisVars
  /\ IdleLoopVars
  /\ IdleStatsVars
  /\ IdleCreatedAt
  /\ IdleAdvancedVars
  /\ IdleSummaryVars
  /\ IdleObservedVars
  /\ IdleCalibrationVars
  /\ IdleGeminiVars
  /\ scheduled = TRUE
  /\ lastOutcome = "none"

\* detectObjects resolved with dets; more: progress < 100 after this frame
ProcessFrame(dets, more) ==
  /\ scheduled
  /\ Update(dets)
  /\ scheduled' = more
  /\ lastOutcome' = "tracked"
  /\ UNCHANGED <<iouVars, tennisVars, otherThanAnalyzer>>

\* detectObjects threw: the catch block logs, sets the error message and
\* returns
ProcessFrameDetectorFailed ==
  /\ scheduled
  /\ frame < MaxFrames
  /\ scheduled' = FALSE
  /\ lastOutcome' = "failed"
  /\ UNCHANGED <<trackerVars, iouVars, tennisVars, otherThanAnalyzer>>

\* getCurrentFrameAsBase64 returned null
ProcessFrameNoImage ==
  /\ scheduled
  /\ frame < MaxFrames
  /\ scheduled' = FALSE
  /\ lastOutcome' = "no image"
  /\ UNCHANGED <<trackerVars, iouVars, tennisVars, otherThanAnalyzer>>

NextAnalyzer ==
  \/ \E dets \in FrameInputs, more \in BOOLEAN : ProcessFrame(dets, more)
  \/ ProcessFrameDetectorFailed
  \/ ProcessFrameNoImage

SpecAnalyzer == InitAnalyzer /\ [][NextAnalyzer]_vars

(***************************************************************************)
(* The frame loop of the tennis page (src/app/tennis/page.tsx 98-158) at   *)
(* the grain of its await: an iteration calls trackFrame with              *)
(* frames[frames.length - 1], the detector requests are in flight until    *)
(* their responses arrive, then the frame is computed and pushed.  An      *)
(* iteration whose frame cannot be extracted throws before trackFrame is   *)
(* called and the loop continues with the next frameIndex.                 *)
(***************************************************************************)
InitLoop ==
  /\ InitTrackerVars
  /\ IdleIouVars
  /\ IdleTennisVars
  /\ IdleAnalyzerVars
  /\ IdleLoopVars
  /\ IdleStatsVars
  /\ IdleCreatedAt
  /\ IdleAdvancedVars
  /\ IdleSummaryVars
  /\ IdleObservedVars
  /\ IdleCalibrationVars
  /\ IdleGeminiVars

\* variant: the call of trackFrame is not awaited
LoopNeverBlocked(inFlight) == FALSE

\* await trackFrame(...): the loop body does not go on while the call is
\* pending
LoopBlocked(inFlight) == inFlight # <<>>

RemoveAt(seq, i) == [j \in 1..(Len(seq) - 1) |-> IF j < i THEN seq[j] ELSE seq[j + 1]]

\* an iteration reaches its call of trackFrame
StartFrame ==
  /\ ~LoopBlocked(calls)
  /\ started < MaxLoopFrames
  /\ started' = started + 1
  /\ calls' = Append(calls, [frameIndex |-> started + 1,
                             timestamp |-> Q(started + 1, frameRate),
                             previousFrame |-> previousFrame])
  /\ UNCHANGED <<pushedFrames, tennisVars, trackerVars, iouVars, otherThanLoop>>

\* an iteration throws before its call of trackFrame; the catch block of the
\* loop body logs and the loop continues
SkipFrame ==
  /\ ~LoopBlocked(calls)
  /\ started < MaxLoopFrames
  /\ started' = started + 1
  /\ UNCHANGED <<calls, pushedFrames, tennisVars, trackerVars, iouVars,
                 otherThanLoop>>

\* the detector answers call i: trackFrame computes the frame, the loop body
\* pushes it
FinishFrame(i, response) ==
  \E out \in {trackFrame(calls[i].frameIndex, calls[i].timestamp,
                         calls[i].previousFrame, response,
                         recentBallTrajectory)} :
     /\ previousFrame' = out.frame
     /\ recentBallTrajectory' = out.trajectory
     /\ pushedFrames' = Append(pushedFrames, [frameId |-> calls[i].frameIndex,
                                  against |-> calls[i].previousFrame.frameId])
     /\ calls' = RemoveAt(calls, i)
     /\ UNCHANGED <<started, isolatedFrame, isolatedTrajectory, framesTracked,
                    currentFrame, shotDone, shotOut, conditions, trackerVars,
                    iouVars, otherThanLoop>>

NextLoop ==
  \/ StartFrame
  \/ SkipFrame
  \/ \E i \in 1..Len(calls), response \in Responses : FinishFrame(i, response)

SpecLoop == InitLoop /\ [][NextLoop]_vars

(***************************************************************************)
(* MovementAnalyzer.calculateStats (src/lib/movement-analyzer.ts 27-91)    *)
(*                                                                         *)
(* The samples of the model move along the axes, so that every distance    *)
(* is a fraction and every direction a multiple of 90 degrees.  An event   *)
(* carries the number its details string renders: the speed, or the        *)
(* change of direction.                                                    *)
(***************************************************************************)
SPRINT_THRESHOLD == 5
STOP_THRESHOLD == Q(1, 2)
DIRECTION_CHANGE_THRESHOLD == 45
PIXELS_PER_METER == 100

\* Math.sqrt on the squares of fractions
ISqrt(n) == CHOOSE r \in 0..n : r * r = n
QSqrt(q) ==
  IF q.den = 0 THEN q ELSE [num |-> ISqrt(q.num), den |-> ISqrt(q.den)]

\* Math.max of two numbers
MathMax(a, b) ==
  IF IsNaN(a) \/ IsNaN(b) THEN QNaN ELSE IF Geq(a, b) THEN a ELSE b

\* Math.atan2(dy, dx) * 180 / Math.PI for a vector along an axis
Atan2Deg(dy, dx) ==
  CASE IsZero(dy) /\ Geq(dx, QInt(0)) -> 0
    [] IsZero(dy) /\ QLt(dx, QInt(0)) -> 180
    [] IsZero(dx) /\ QGt(dy, QInt(0)) -> 90
    [] IsZero(dx) /\ QLt(dy, QInt(0)) -> 0 - 90

\* variant: the direction change is tested before the speed
StatsEventDirectionFirst(speed, directionChange, timestamp) ==
  IF directionChange > DIRECTION_CHANGE_THRESHOLD
    THEN [type |-> "change_direction", timestamp |-> timestamp,
          value |-> QInt(directionChange)]
  ELSE IF QGt(speed, QInt(SPRINT_THRESHOLD))
    THEN [type |-> "sprint", timestamp |-> timestamp, value |-> speed]
  ELSE IF QLt(speed, STOP_THRESHOLD)
    THEN [type |-> "stop", timestamp |-> timestamp, value |-> speed]
  ELSE [type |-> "steady", timestamp |-> timestamp, value |-> speed]

StatsEvent(speed, directionChange, timestamp) ==
  IF QGt(speed, QInt(SPRINT_THRESHOLD))
    THEN [type |-> "sprint", timestamp |-> timestamp, value |-> speed]
  ELSE IF QLt(speed, STOP_THRESHOLD)
    THEN [type |-> "stop", timestamp |-> timestamp, value |-> speed]
  ELSE IF directionChange > DIRECTION_CHANGE_THRESHOLD
    THEN [type |-> "change_direction", timestamp |-> timestamp,
          value |-> QInt(directionChange)]
  ELSE [type |-> "steady", timestamp |-> timestamp, value |-> speed]

\* the loop of calculateStats from index i on (1-based: i is curr)
RECURSIVE StatsLoop(_, _, _, _, _)
StatsLoop(coords, i, acc, totalSpeed, prevDirection) ==
  IF i > Len(coords)
  THEN [acc EXCEPT !.avgSpeed = QDiv(totalSpeed, QInt(Len(coords) - 1))]
  ELSE
    LET prev == coords[i - 1]
        curr == coords[i]
        dx == Q(curr.x - prev.x, PIXELS_PER_METER)
        dy == Q(curr.y - prev.y, PIXELS_PER_METER)
        distance == QSqrt(QAdd(QMul(dx, dx), QMul(dy, dy)))
        timeDiff == Q(curr.timestamp - prev.timestamp, 1000)
        speed == QDiv(distance, timeDiff)
        direction == Atan2Deg(dy, dx)
        directionChange == Abs(direction - prevDirection)
    IN StatsLoop(coords, i + 1,
                 [acc EXCEPT !.distance = QAdd(@, distance),
                             !.maxSpeed = MathMax(@, speed),
                             !.events = Append(@, StatsEvent(speed,
                                                  directionChange,
                                                  curr.timestamp))],
                 QAdd(totalSpeed, speed), direction)

calculateStats(coords) ==
  LET empty == [distance |-> QInt(0), maxSpeed |-> QInt(0),
                avgSpeed |-> QInt(0), events |-> <<>>]
  IN IF Len(coords) < 2 THEN empty
     ELSE StatsLoop(coords, 2, empty, QInt(0), 0)

\* the samples: positions in pixels, Date.now() readings in milliseconds
SamplePositions == {<<0, 0>>, <<100, 0>>, <<1000, 0>>, <<0, 100>>}
SampleTimes == {0, 1000, 2000}

AlongAxis(p, q) == p[1] = q[1] \/ p[2] = q[2]

\* sequences of samples whose clock readings do not decrease
SampleSeqs ==
  UNION { { [i \in 1..n |-> [x |-> ps[i][1], y |-> ps[i][2],
                             timestamp |-> ts[i]]]
            : ps \in { f \in [1..n -> SamplePositions] :
                         \A i \in 1..(n - 1) : AlongAxis(f[i], f[i + 1]) },
              ts \in { g \in [1..n -> SampleTimes] :
                         \A i \in 1..(n - 1) : g[i] <= g[i + 1] } }
          : n \in 0..MaxSamples }

InitStats ==
  /\ InitTrackerVars
  /\ IdleIouVars
  /\ IdleTennisVars
  /\ IdleAnalyzerVars
  /\ IdleLoopVars
  /\ IdleCreatedAt
  /\ IdleAdvancedVars
  /\ IdleSummaryVars
  /\ IdleObservedVars
  /\ IdleCalibrationVars
  /\ IdleGeminiVars
  /\ coordinates \in SampleSeqs
  /\ statsDone = FALSE
  /\ stats = [distance |-> QInt(0), maxSpeed |-> QInt(0),
              avgSpeed |-> QInt(0), events |-> <<>>]

CalculateStats ==
  /\ ~statsDone
  /\ statsDone' = TRUE
  /\ stats' = calculateStats(coordinates)
  /\ UNCHANGED <<coordinates, trackerVars, iouVars, tennisVars,
                 otherThanStats>>

SpecStats == InitStats /\ [][CalculateStats]_vars

(***************************************************************************)
(* ByteTracker.update fed with boxes of any size, small and negative ones  *)
(* included, with the number of the update call that created each track    *)
(***************************************************************************)
\* options.min_box_area of the tracker (the default)
min_box_area == 10

\* a box of area 9, a box of width -5, and boxes overlapping them
BoxTiny == <<0, 0, 3, 3>>
BoxNegative == <<20, 0, 0 - 5, 10>>
BoxOverNegative == <<14, 0, 10, 10>>

AnyFrameInputs ==
  { <<>>,
    <<Det("ball", BoxTiny, 90)>>,
    <<Det("ball", BoxNegative, 90)>>,
    <<Det("ball", BoxA, 90)>>,
    <<Det("ball", BoxOverNegative, 90)>>,
    <<Det("ball", BoxNegative, 90), Det("ball", BoxA, 90)>> }

InitAnyBoxes == InitTracker

UpdateAnyBoxes(dets) ==
  /\ Update(dets)
  /\ createdAt' = [id \in Ids(tracks') \cup DOMAIN createdAt |->
                     IF id \in DOMAIN createdAt THEN createdAt[id]
                     ELSE frame + 1]
  /\ UNCHANGED <<iouVars, tennisVars, otherThanCreatedAt>>

NextAnyBoxes == \E dets \in AnyFrameInputs : UpdateAnyBoxes(dets)

SpecAnyBoxes == InitAnyBoxes /\ [][NextAnyBoxes]_vars

(***************************************************************************)
(* generateAdvancedAnalysisResult                                          *)
(* (src/lib/tennis-tracker-advanced.ts 470-690)                            *)
(*                                                                         *)
(* The frames of the model carry no geminiAnalysis.  A heatmap is kept as  *)
(* the function from its cells <<gridY, gridX>> of nonzero count to their  *)
(* counts.  The result holds playerStats, allPlayers and courtCoverage;    *)
(* the ball statistics and the per-frame data are left out.                *)
(***************************************************************************)
HeatmapCells == 100

Floor(q) == q.num \div q.den

\* Math.min(Math.floor(v / extent * 10), 9)
GridIndex(v, extent) == Min(Floor(Q(v * 10, extent)), 9)

RECURSIVE createHeatmap(_, _, _)
createHeatmap(positions, width, height) ==
  IF positions = <<>> THEN [c \in {} |-> 0]
  ELSE
    LET grid == createHeatmap(SubSeq(positions, 1, Len(positions) - 1),
                              width, height)
        pos == positions[Len(positions)]
        cell == <<GridIndex(pos.y, height), GridIndex(pos.x, width)>>
    IN [c \in DOMAIN grid \cup {cell} |->
          (IF c \in DOMAIN grid THEN grid[c] ELSE 0)
          + (IF c = cell THEN 1 ELSE 0)]

\* the insertion order of new Set after adding the ids of seq
RECURSIVE AddIds(_, _)
AddIds(ids, players) ==
  IF players = <<>> THEN ids
  ELSE AddIds(IF \E i \in 1..Len(ids) : ids[i] = Head(players).id
              THEN ids ELSE Append(ids, Head(players).id),
              Tail(players))

RECURSIVE PlayerIds(_, _)
PlayerIds(frames, ids) ==
  IF frames = <<>> THEN ids
  ELSE PlayerIds(Tail(frames), AddIds(ids, Head(frames).players))

HasPlayer(f, playerId) ==
  \E i \in 1..Len(f.players) : f.players[i].id = playerId

\* frame.players.find(p => p.id === playerId)
FindPlayer(f, playerId) ==
  f.players[CHOOSE i \in 1..Len(f.players) :
              /\ f.players[i].id = playerId
              /\ \A j \in 1..(i - 1) : f.players[j].id # playerId]

\* the square root of a squared distance in pixels
PixelDistance(a, b) ==
  QSqrt(QInt((a.centerX - b.centerX) * (a.centerX - b.centerX)
             + (a.centerY - b.centerY) * (a.centerY - b.centerY)))

\* calculateSpeed of tennis-tracker-advanced.ts
calculateSpeedAdvanced(curr, prev, timeDiff) ==
  QDiv(QMul(PixelDistance(curr, prev), pixelsToMeters), timeDiff)

calculateDistanceAdvanced(curr, prev) ==
  QMul(PixelDistance(curr, prev), pixelsToMeters)

RECURSIVE QSum(_)
QSum(seq) == IF seq = <<>> THEN QInt(0) ELSE QAdd(Head(seq), QSum(Tail(seq)))

RECURSIVE QMaxOf(_)
QMaxOf(seq) ==
  IF Len(seq) = 1 THEN seq[1] ELSE MathMax(Head(seq), QMaxOf(Tail(seq)))

\* the entry of playerStatsMap built for playerId
PlayerEntry(frames, playerId) ==
  LET playerFrames == SelectSeq(frames, LAMBDA f : HasPlayer(f, playerId))
      playerPositions ==
        [i \in 1..Len(playerFrames) |->
           [x |-> FindPlayer(playerFrames[i], playerId).centerX,
            y |-> FindPlayer(playerFrames[i], playerId).centerY]]
      playerSpeeds ==
        [i \in 1..(Len(playerFrames) - 1) |->
           QMul(calculateSpeedAdvanced(
                  FindPlayer(playerFrames[i + 1], playerId),
                  FindPlayer(playerFrames[i], playerId),
                  QSub(playerFrames[i + 1].timestamp,
                       playerFrames[i].timestamp)),
                Q(18, 5))]
      distances ==
        [i \in 1..(Len(playerFrames) - 1) |->
           calculateDistanceAdvanced(
             FindPlayer(playerFrames[i + 1], playerId),
             FindPlayer(playerFrames[i], playerId))]
      playerShots ==
        SelectSeq(playerFrames,
                  LAMBDA f : f.players[1].id = playerId /\ f.isShot)
  IN [id |-> playerId,
      averageSpeed |-> IF Len(playerSpeeds) > 0
                       THEN QDiv(QSum(playerSpeeds), QInt(Len(playerSpeeds)))
                       ELSE QInt(0),
      maxSpeed |-> IF Len(playerSpeeds) > 0 THEN QMaxOf(playerSpeeds)
                   ELSE QInt(0),
      totalDistanceCovered |-> QSum(distances),
      positionHeatmap |-> createHeatmap(playerPositions, VideoWidth,
                                        VideoHeight),
      shotsHit |-> Len(playerShots)]

\* variant: the primary player is the one seen last
LastPlayerId(ids) == IF ids = <<>> THEN "player1" ELSE ids[Len(ids)]

\* Array.from(playerIds)[0] || 'player1'
primaryPlayerId(ids) == IF ids = <<>> THEN "player1" ELSE ids[1]

DefaultPlayerEntry(playerId) ==
  [id |-> playerId, averageSpeed |-> QInt(0), maxSpeed |-> QInt(0),
   totalDistanceCovered |-> QInt(0), positionHeatmap |-> [c \in {} |-> 0],
   shotsHit |-> 0]

generateAdvancedAnalysisResult(frames) ==
  LET ids == PlayerIds(frames, <<>>)
      primary == primaryPlayerId(ids)
  IN [playerStats |-> IF \E i \in 1..Len(ids) : ids[i] = primary
                      THEN PlayerEntry(frames, primary)
                      ELSE DefaultPlayerEntry(primary),
      courtCoverage |-> 75,
      allPlayers |-> [i \in 1..Len(ids) |-> PlayerEntry(frames, ids[i])]]

\* the players a frame can hold: two ids at the corners of a 3-4-5 triangle
AdvPlayer(id, x, y) == [id |-> id, centerX |-> x, centerY |-> y]

PlayerLists ==
  { <<>>,
    <<AdvPlayer("player1", 100, 100)>>,
    <<AdvPlayer("player1", 400, 100)>>,
    <<AdvPlayer("player2", 100, 500)>>,
    <<AdvPlayer("player1", 100, 100), AdvPlayer("player2", 400, 100)>>,
    <<AdvPlayer("player2", 100, 500), AdvPlayer("player1", 400, 100)>> }

AdvancedFrameSeqs ==
  UNION { { [i \in 1..n |-> [frameId |-> i - 1,
                             timestamp |-> Q(i - 1, frameRate),
                             players |-> ps[i],
                             isShot |-> shots[i]]]
            : ps \in [1..n -> PlayerLists], shots \in [1..n -> BOOLEAN] }
          : n \in 0..MaxSummaryFrames }

InitAdvanced ==
  /\ InitTrackerVars
  /\ IdleIouVars
  /\ IdleTennisVars
  /\ IdleAnalyzerVars
  /\ IdleLoopVars
  /\ IdleStatsVars
  /\ IdleCreatedAt
  /\ IdleSummaryVars
  /\ IdleObservedVars
  /\ IdleCalibrationVars
  /\ IdleGeminiVars
  /\ advancedFrames \in AdvancedFrameSeqs
  /\ advancedDone = FALSE
  /\ advancedResult = "none"

GenerateAdvanced ==
  /\ ~advancedDone
  /\ advancedDone' = TRUE
  /\ advancedResult' = generateAdvancedAnalysisResult(advancedFrames)
  /\ UNCHANGED <<advancedFrames, trackerVars, iouVars, tennisVars,
                 otherThanAdvanced>>

SpecAdvanced == InitAdvanced /\ [][GenerateAdvanced]_vars

(***************************************************************************)
(* generateAnalysisResult (src/lib/supabase.ts 972-1063)                   *)
(*                                                                         *)
(* A frame carries the fields the function reads: playerSpeed, isShot,     *)
(* shotType, ballSpeed, totalPlayerDistanceCovered and the player's centre *)
(* (NoObj when frame.player is undefined).  The result holds playerStats,  *)
(* shotStats and courtCoverage.                                            *)
(***************************************************************************)
gridSize == 10

\* generatePositionHeatmap, as the function from the cells <<gridY, gridX>>
\* of nonzero count to their counts
RECURSIVE generatePositionHeatmap(_)
generatePositionHeatmap(frames) ==
  IF frames = <<>> THEN [c \in {} |-> 0]
  ELSE
    LET heatmap == generatePositionHeatmap(SubSeq(frames, 1, Len(frames) - 1))
        f == frames[Len(frames)]
    IN IF f.player = NoObj THEN heatmap
       ELSE
         LET cell ==
               <<Min(gridSize - 1,
                     Floor(Q(f.player.centerY * gridSize, f.courtInfo.height))),
                 Min(gridSize - 1,
                     Floor(Q(f.player.centerX * gridSize, f.courtInfo.width)))>>
         IN [c \in DOMAIN heatmap \cup {cell} |->
               (IF c \in DOMAIN heatmap THEN heatmap[c] ELSE 0)
               + (IF c = cell THEN 1 ELSE 0)]

calculateCourtCoverage(frames) ==
  LET heatmap == generatePositionHeatmap(frames)
      coveredCells == Cardinality({ c \in DOMAIN heatmap : heatmap[c] > 0 })
      totalCells == gridSize * gridSize
  IN QMul(Q(coveredCells, totalCells), QInt(100))

\* Math.max folded from 0 over the values
RECURSIVE MaxFromZero(_)
MaxFromZero(values) ==
  IF values = <<>> THEN QInt(0)
  ELSE MathMax(MaxFromZero(SubSeq(values, 1, Len(values) - 1)),
               values[Len(values)])

\* if (frame.playerSpeed): neither 0 nor NaN nor undefined
Truthy(q) == ~IsZero(q) /\ ~IsNaN(q)

\* shotsHit > 0 ? total / count : 0
averageIfShots(total, shotsHit, count) ==
  IF shotsHit > 0 THEN QDiv(total, QInt(count)) ELSE QInt(0)

generateAnalysisResult(frames) ==
  LET playerSpeeds ==
        LET moving == SelectSeq(frames, LAMBDA f : Truthy(f.playerSpeed))
        IN [i \in 1..Len(moving) |-> moving[i].playerSpeed]
      totalPlayerSpeed == QSum(playerSpeeds)
      maxPlayerSpeed == MaxFromZero(playerSpeeds)
      shots == SelectSeq(frames, LAMBDA f : f.isShot)
      shotsHit == Len(shots)
      ballSpeeds ==
        LET hit == SelectSeq(shots, LAMBDA f : Truthy(f.ballSpeed))
        IN [i \in 1..Len(hit) |-> hit[i].ballSpeed]
      totalBallSpeed == QSum(ballSpeeds)
      maxBallSpeed == MaxFromZero(ballSpeeds)
      countOf(type) == Len(SelectSeq(shots, LAMBDA f : f.shotType = type))
  IN [playerStats |->
        [averageSpeed |-> averageIfShots(totalPlayerSpeed, shotsHit,
                                         Len(frames)),
         maxSpeed |-> maxPlayerSpeed,
         totalDistanceCovered |->
           IF frames = <<>> THEN QInt(0)
           ELSE frames[Len(frames)].totalPlayerDistanceCovered,
         shotsHit |-> shotsHit,
         forehandCount |-> countOf("forehand"),
         backhandCount |-> countOf("backhand"),
         serveCount |-> countOf("serve"),
         volleyCount |-> countOf("volley"),
         positionHeatmap |-> generatePositionHeatmap(frames)],
      shotStats |->
        [averageBallSpeed |-> averageIfShots(totalBallSpeed, shotsHit,
                                             shotsHit),
         maxBallSpeed |-> maxBallSpeed],
      courtCoverage |-> calculateCourtCoverage(frames)]

PlainFrame(speed, shot, type, ball, distance, player) ==
  [playerSpeed |-> QInt(speed), isShot |-> shot, shotType |-> type,
   ballSpeed |-> QInt(ball), totalPlayerDistanceCovered |-> QInt(distance),
   player |-> player,
   courtInfo |-> [width |-> VideoWidth, height |-> VideoHeight]]

PlainPlayerLeft == [centerX |-> 100, centerY |-> 100]
PlainPlayerRight == [centerX |-> 400, centerY |-> 500]

PlainFrames ==
  { PlainFrame(0, FALSE, "undefined", 0, 0, NoObj),
    PlainFrame(0, FALSE, "undefined", 0, 0, PlainPlayerLeft),
    PlainFrame(4, FALSE, "undefined", 20, 2, PlainPlayerRight),
    PlainFrame(10, FALSE, "undefined", 0, 5, PlainPlayerLeft),
    PlainFrame(4, TRUE, "forehand", 20, 2, PlainPlayerRight),
    PlainFrame(10, TRUE, "volley", 30, 5, PlainPlayerLeft),
    PlainFrame(0, TRUE, "serve", 30, 0, PlainPlayerLeft) }

PlainFrameSeqs == UNION { [1..n -> PlainFrames] : n \in 0..MaxPlainFrames }

InitSummary ==
  /\ InitTrackerVars
  /\ IdleIouVars
  /\ IdleTennisVars
  /\ IdleAnalyzerVars
  /\ IdleLoopVars
  /\ IdleStatsVars
  /\ IdleCreatedAt
  /\ IdleAdvancedVars
  /\ IdleObservedVars
  /\ IdleCalibrationVars
  /\ IdleGeminiVars
  /\ summaryFrames \in PlainFrameSeqs
  /\ summaryDone = FALSE
  /\ summaryResult = "none"

GenerateSummary ==
  /\ ~summaryDone
  /\ summaryDone' = TRUE
  /\ summaryResult' = generateAnalysisResult(summaryFrames)
  /\ UNCHANGED <<summaryFrames, trackerVars, iouVars, tennisVars,
                 otherThanSummary>>

SpecSummary == InitSummary /\ [][GenerateSummary]_vars

(***************************************************************************)
(* The calibration factor of a session: initializeTennisTracker            *)
(* (src/lib/supabase.ts 465-467) and initializeAdvancedTennisTracker       *)
(* (src/lib/tennis-tracker-advanced.ts 101-103) return it, the page passes *)
(* it to every call of trackFrame, and calculateDistance multiplies the    *)
(* pixel distance of a move by it.                                         *)
(***************************************************************************)
\* COURT_WIDTH_METERS / videoWidth
plainPixelsToMeters(videoWidth) == QDiv(COURT_WIDTH_METERS, QInt(videoWidth))

\* videoWidth / (COURT_WIDTH_METERS * 2)
advancedPixelsToMeters(videoWidth) ==
  QDiv(QInt(videoWidth), QMul(COURT_WIDTH_METERS, QInt(2)))

\* calculateDistance for a move of the given number of pixels along x
calculateDistance(move, factor) == QMul(QSqrt(QInt(move * move)), factor)

CalibrationWidths == {640, 1097, 1280, 1920}

InitCalibration ==
  /\ InitTrackerVars
  /\ IdleIouVars
  /\ IdleTennisVars
  /\ IdleAnalyzerVars
  /\ IdleLoopVars
  /\ IdleStatsVars
  /\ IdleCreatedAt
  /\ IdleAdvancedVars
  /\ IdleSummaryVars
  /\ IdleObservedVars
  /\ IdleGeminiVars
  /\ calibrationInput \in [tracker : {"plain", "advanced"},
                           videoWidth : CalibrationWidths,
                           move : 0..MaxMove]
  /\ calibrationDone = FALSE
  /\ calibrationOut = [pixelsToMeters |-> QInt(0), distance |-> QInt(0)]

\* the tracker is initialised and one move of the session is measured
Calibrate ==
  \E factor \in {IF calibrationInput.tracker = "plain"
                 THEN plainPixelsToMeters(calibrationInput.videoWidth)
                 ELSE advancedPixelsToMeters(calibrationInput.videoWidth)} :
     /\ ~calibrationDone
     /\ calibrationDone' = TRUE
     /\ calibrationOut' =
          [pixelsToMeters |-> factor,
           distance |-> calculateDistance(calibrationInput.move, factor)]
     /\ UNCHANGED <<calibrationInput, trackerVars, iouVars, tennisVars,
                    otherThanCalibration>>

SpecCalibration == InitCalibration /\ [][Calibrate]_vars

(***************************************************************************)
(* trackFrameAdvanced: the players and the ball of an advanced frame       *)
(***************************************************************************)
MaxAdvancedCalls == 2
MaxObjects == 2

\* a player of an advanced frame
GeminiPlayer(id, x, y, w, h, cx, cy, conf) ==
  [id |-> id, x |-> x, y |-> y, width |-> w, height |-> h, centerX |-> cx,
   centerY |-> cy, confidence |-> conf]

\* `player${index + 1}`
PlayerName(n) ==
  CASE n = 1 -> "player1"
    [] n = 2 -> "player2"
    [] n = 3 -> "player3"
    [] OTHER -> "player4"

\* a box the user selected in the first frame
InitialBox(cx, cy) ==
  [x |-> QInt(cx - 50), y |-> QInt(cy - 100), width |-> QInt(100),
   height |-> QInt(200), centerX |-> QInt(cx), centerY |-> QInt(cy),
   confidence |-> QInt(1)]

\* width and height of the video
VideoSizes == {<<2000, 1000>>, <<1000, 500>>}

InitialBoxSets ==
  { <<>>,
    <<InitialBox(200, 300)>>,
    <<InitialBox(200, 300), InitialBox(900, 300)>> }

\* the initial frame of initializeAdvancedTennisTracker for boxes labelled
\* 'player'
initialAdvancedFrame(playerBoxes, videoWidth, videoHeight) ==
  [frameId |-> 0,
   players |->
     IF Len(playerBoxes) > 0
     THEN [i \in 1..Len(playerBoxes) |->
             GeminiPlayer(PlayerName(i), playerBoxes[i].x, playerBoxes[i].y,
                          playerBoxes[i].width, playerBoxes[i].height,
                          playerBoxes[i].centerX, playerBoxes[i].centerY,
                          playerBoxes[i].confidence)]
     ELSE <<GeminiPlayer("player1", QInt(0), QInt(0), Q(videoWidth, 4),
                         Q(videoHeight, 2), Q(videoWidth, 2),
                         Q(videoHeight, 2), QInt(1))>>,
   ball |-> NoGeminiBall,
   courtInfo |-> [width |-> videoWidth, height |-> videoHeight]]

\* an object of detectObjectsWithGemini; box_2d is <<ymin, xmin, ymax, xmax>>
\* on the scale 0..1000
GeminiObject(label, box_2d) == [label |-> label, box_2d |-> box_2d]

GeminiLabels == {"player", "person", "player2", "ball"}

GeminiBoxes == {<<400, 400, 600, 500>>, <<400, 500, 600, 600>>,
                <<0, 0, 200, 100>>}

GeminiObjects ==
  { GeminiObject(l, b) : l \in GeminiLabels, b \in GeminiBoxes }

GeminiObjectSeqs == UNION { [1..n -> GeminiObjects] : n \in 0..MaxObjects }

\* label.toLowerCase().includes('player') || ...includes('person')
IsPlayerLabel(label) == label \in {"player", "person", "player2"}

\* label.toLowerCase().includes('ball')
IsBallLabel(label) == label = "ball"

\* label.includes('player') && label.length > 6 && the lower-cased label
\* includes 'player1' or 'player2'
LabelHasId(label) == label = "player2"

\* detectedId.includes('player1') ? 'player1' : 'player2'
LabelId(label) == "player2"

\* (box_2d[1] + box_2d[3]) / 2000 * courtInfo.width, and the same for y
BoxCenterX(box_2d, courtInfo) ==
  QMul(Q(box_2d[2] + box_2d[4], 2000), QInt(courtInfo.width))
BoxCenterY(box_2d, courtInfo) ==
  QMul(Q(box_2d[1] + box_2d[3], 2000), QInt(courtInfo.height))

\* the square of the distance of a previous player from a point
SquaredDistance(prevPlayer, centerX, centerY) ==
  QAdd(QSquare(QSub(prevPlayer.centerX, centerX)),
       QSquare(QSub(prevPlayer.centerY, centerY)))

\* the forEach over previousFrame.players: the closest previous player, the
\* first one on ties; distances are compared by their squares
RECURSIVE ClosestPlayer(_, _, _, _, _)
ClosestPlayer(prevPlayers, i, centerX, centerY, closest) ==
  IF i > Len(prevPlayers) THEN closest
  ELSE LET distance == SquaredDistance(prevPlayers[i], centerX, centerY)
       IN IF QLt(distance, closest.distance)
          THEN ClosestPlayer(prevPlayers, i + 1, centerX, centerY,
                             [distance |-> distance,
                              id |-> prevPlayers[i].id])
          ELSE ClosestPlayer(prevPlayers, i + 1, centerX, centerY, closest)

\* the id given to the detection at position index (from 1) of
\* playerDetections; closestDistance < 200 is decided on the squares
assignPlayerId(detection, index, prevPlayers, courtInfo) ==
  LET closest ==
        ClosestPlayer(prevPlayers, 1,
                      BoxCenterX(detection.box_2d, courtInfo),
                      BoxCenterY(detection.box_2d, courtInfo),
                      [distance |-> Q(1, 0), id |-> ""])
      matched ==
        IF Len(prevPlayers) > 0 /\ QLt(closest.distance, QInt(200 * 200))
        THEN closest.id
        ELSE PlayerName(index)
  IN IF LabelHasId(detection.label) THEN LabelId(detection.label)
     ELSE matched

\* the player pushed for a detection
playerOfDetection(detection, index, prevPlayers, courtInfo) ==
  LET b == detection.box_2d
  IN GeminiPlayer(assignPlayerId(detection, index, prevPlayers, courtInfo),
                  QMul(Q(b[2], 1000), QInt(courtInfo.width)),
                  QMul(Q(b[1], 1000), QInt(courtInfo.height)),
                  QMul(Q(b[4] - b[2], 1000), QInt(courtInfo.width)),
                  QMul(Q(b[3] - b[1], 1000), QInt(courtInfo.height)),
                  BoxCenterX(b, courtInfo), BoxCenterY(b, courtInfo),
                  Q(95, 100))

playerDetections(objects) ==
  SelectSeq(objects, LAMBDA obj : IsPlayerLabel(obj.label))

\* the players of the frame: one per player detection, else the previous
\* frame's players
advancedPlayers(objects, prev) ==
  LET dets == playerDetections(objects)
  IN IF Len(dets) > 0
     THEN [i \in 1..Len(dets) |->
             playerOfDetection(dets[i], i, prev.players, prev.courtInfo)]
     ELSE prev.players

\* the ball of the frame: the first object labelled as a ball, else the
\* previous frame's ball
advancedBall(objects, prev) ==
  LET balls == SelectSeq(objects, LAMBDA obj : IsBallLabel(obj.label))
  IN IF Len(balls) > 0
     THEN GeminiBall(BoxCenterX(balls[1].box_2d, prev.courtInfo),
                     BoxCenterY(balls[1].box_2d, prev.courtInfo))
     ELSE prev.ball

InitGemini ==
  /\ InitTrackerVars
  /\ IdleIouVars
  /\ IdleTennisVars
  /\ IdleAnalyzerVars
  /\ IdleLoopVars
  /\ IdleStatsVars
  /\ IdleCreatedAt
  /\ IdleAdvancedVars
  /\ IdleSummaryVars
  /\ IdleObservedVars
  /\ IdleCalibrationVars
  /\ \E boxes \in InitialBoxSets, size \in VideoSizes :
       advancedFrame = initialAdvancedFrame(boxes, size[1], size[2])
  /\ detectedObjects = <<>>
  /\ detectionFailed = FALSE
  /\ advancedCalls = 0

\* trackFrameAdvanced with the objects Gemini detected; the frame returned is
\* the previous frame of the next call
TrackFrameAdvanced(objects) ==
  /\ advancedCalls < MaxAdvancedCalls
  /\ advancedCalls' = advancedCalls + 1
  /\ detectedObjects' = objects
  /\ detectionFailed' = FALSE
  /\ advancedFrame' = [frameId |-> advancedFrame.frameId + 1,
                       players |-> advancedPlayers(objects, advancedFrame),
                       ball |-> advancedBall(objects, advancedFrame),
                       courtInfo |-> advancedFrame.courtInfo]
  /\ UNCHANGED <<trackerVars, iouVars, tennisVars, otherThanGemini>>

\* trackFrameAdvanced when detectObjectsWithGemini throws: the previous frame
\* with the new frameId
TrackFrameAdvancedFailed ==
  /\ advancedCalls < MaxAdvancedCalls
  /\ advancedCalls' = advancedCalls + 1
  /\ detectedObjects' = <<>>
  /\ detectionFailed' = TRUE
  /\ advancedFrame' = [advancedFrame EXCEPT !.frameId = @ + 1]
  /\ UNCHANGED <<trackerVars, iouVars, tennisVars, otherThanGemini>>

NextGemini ==
  \/ \E objects \in GeminiObjectSeqs : TrackFrameAdvanced(objects)
  \/ TrackFrameAdvancedFailed

SpecGemini == InitGemini /\ [][NextGemini]_vars

(***************************************************************************)
(* Claims about ByteTracker.update                                         *)
(***************************************************************************)

\* C1: the track ids handed out over the life of the tracker are strictly
\* increasing in the order of allocation (so no id is handed out twice, also
\* after its track was deleted), and the live tracks carry distinct ids that
\* were handed out.
C1_IdsNeverReused ==
  /\ \A i, j \in 1..Len(assigned) : i < j => assigned[i] < assigned[j]
  /\ \A i, j \in 1..Len(tracks) : i # j => tracks[i].track_id # tracks[j].track_id
  /\ Ids(tracks) \subseteq Range(assigned)

\* a track was created in the last update, after the first track was deleted
C1_Witness ==
  /\ Len(assigned) >= 2
  /\ assigned[1] \notin Ids(tracks)
  /\ Len(tracks) > 0
  /\ tracks[Len(tracks)].track_id = assigned[Len(assigned)]
  /\ tracks[Len(tracks)].age = 1
  /\ tracks[Len(tracks)].time_since_update = 0

AllowedStep(s, t) ==
  \/ s = t
  \/ s = "tentative" /\ t = "confirmed"
  \/ s = "confirmed" /\ t = "deleted"
  \/ s = "tentative" /\ t = "deleted"

\* C2: in every step of an update (ageing, then the update of the matched
\* tracks) a track's state stays or goes tentative->confirmed,
\* confirmed->deleted or tentative->deleted.
C2_OnlyForwardTransitions ==
  \A i \in 1..Len(before) :
    /\ AllowedStep(before[i].state, aged[i].state)
    /\ AllowedStep(aged[i].state, updated[i].state)

\* C3: a track whose last match was in frame k is returned by the updates
\* k+1 .. k+track_buffer in which it stays unmatched, and by no update after
\* them.
C3_ReturnedThroughBuffer ==
  \A id \in DOMAIN lastHit :
    /\ (frame - lastHit[id]) \in 1..track_buffer => id \in Ids(result)
    /\ (frame - lastHit[id]) > track_buffer => id \notin Ids(result)

\* C4: a returned track is tentative with 1 or 2 hits and confirmed with 3 or
\* more, and it goes from tentative to confirmed in exactly the update that
\* takes its hits from 2 to 3.
C4_ConfirmedAtThreeHits ==
  /\ \A i \in 1..Len(result) :
       /\ result[i].hits >= 1
       /\ result[i].hits \in {1, 2} => result[i].state = "tentative"
       /\ result[i].hits >= 3 => result[i].state = "confirmed"
  /\ \A i \in 1..Len(result) : \A j \in 1..Len(before) :
       result[i].track_id = before[j].track_id =>
         ((before[j].state = "tentative" /\ result[i].state = "confirmed")
            <=> (before[j].hits = 2 /\ result[i].hits = 3))

\* a track has just been confirmed by its third hit
C4_Witness ==
  \E i \in 1..Len(result) : \E j \in 1..Len(before) :
    /\ result[i].track_id = before[j].track_id
    /\ before[j].state = "tentative"
    /\ result[i].state = "confirmed"
    /\ result[i].hits = 3

\* C5: while every frame brings exactly one detection, created in the first
\* frame and overlapping the detection of the frame before by at least
\* match_thresh, every update returns exactly one track, the one that was
\* created in the first frame.
C5_GradualKeepsId ==
  (gradual /\ frame >= 1) =>
    /\ Len(result) = 1
    /\ result[1].track_id = assigned[1]
    /\ result[1].bbox = detections[1].bbox

\* the box has moved from A over A1 to A2 under one id
C5_Witness ==
  /\ gradual
  /\ frame >= 3
  /\ Len(result) = 1
  /\ result[1].bbox = BoxA2
  /\ result[1].hits = frame

\* the unmatched detections of the last update that are at or above track_thresh
HighUnmatched ==
  LET High(i) == detections[i].confidence >= track_thresh
  IN SelectSeq(matchResults.unmatchedDetections, High)

\* C6: the tracks added by the last update are, in order, its unmatched
\* detections with confidence >= track_thresh, each with an id never handed
\* out before, age 1, hits 1, time_since_update 0 and state tentative; the
\* other unmatched detections add nothing.
C6_CreatedIffAboveThresh ==
  LET survivors == Len(RemoveDeleted(updated))
      n == Len(tracks) - survivors
      first == Len(assigned) - n
  IN /\ n = Len(HighUnmatched)
     /\ \A i \in 1..survivors : tracks[i].track_id \in Ids(before)
     /\ \A i \in 1..n :
          LET t == tracks[survivors + i]
              d == detections[HighUnmatched[i]]
          IN /\ t.bbox = d.bbox
             /\ t.class = d.class
             /\ t.confidence = d.confidence
             /\ t.age = 1
             /\ t.hits = 1
             /\ t.time_since_update = 0
             /\ t.state = "tentative"
             /\ t.track_id = assigned[first + i]
             /\ \A j \in 1..(first + i - 1) : assigned[j] # t.track_id

\* two disjoint high-confidence boxes in the first two frames gave two ids
C6_Witness ==
  /\ frame = 2
  /\ Len(detections) = 1
  /\ Len(before) = 1
  /\ before[1].bbox = BoxA
  /\ detections[1].bbox = BoxFar
  /\ Len(tracks) = 2
  /\ tracks[1].track_id # tracks[2].track_id

\* C7: after an update neither the result nor the track list holds a deleted
\* track, and a track that the update marked deleted is gone from the list.
C7_DeletedPurgedAtOnce ==
  /\ \A i \in 1..Len(tracks) : tracks[i].state # "deleted"
  /\ \A i \in 1..Len(result) : result[i].state # "deleted"
  /\ \A i \in 1..Len(aged) :
       aged[i].state = "deleted" => aged[i].track_id \notin Ids(tracks)

(***************************************************************************)
(* Claims about ByteTracker.iou                                            *)
(***************************************************************************)
\* the unit cells a box with sides >= 0 covers
Cells(b) == (b[1]..(b[1] + b[3] - 1)) \X (b[2]..(b[2] + b[4] - 1))
InterArea == Cardinality(Cells(box1) \cap Cells(box2))
UnionArea == Cardinality(Cells(box1) \cup Cells(box2))

\* iou(box1, box2) is the number InterArea / UnionArea
IouIsRatio ==
  /\ iouOut.den # 0
  /\ iouOut.num * UnionArea = InterArea * iouOut.den
  /\ box1 = box2 => iouOut.num = iouOut.den
  /\ (Cells(box2) \subseteq Cells(box1)
        /\ 2 * Cardinality(Cells(box2)) = Cardinality(Cells(box1)))
       => 2 * iouOut.num = iouOut.den

\* iou is the number 0 for two boxes that share no area
IouZeroWhenApart ==
  (InterArea = 0 /\ box1 # box2) => (iouOut.num = 0 /\ iouOut.den # 0)

IouSymmetric == iouRev = iouOut

MatchRule ==
  pairMatches <=> (match_thresh.den * InterArea >= match_thresh.num * UnionArea)

C9_ShotFormula ==
  shotDone =>
    IF Missing(previousFrame, currentFrame) THEN ~shotOut.isShot
    ELSE shotOut.isShot <=>
           \/ conditions.proximity /\ conditions.speedIncrease
           \/ conditions.proximity /\ conditions.directionChange
           \/ conditions.speedIncrease /\ conditions.movingAway

\* a shot decided by the third pair alone, with the direction changed
C9_Witness ==
  /\ shotDone
  /\ ~Missing(previousFrame, currentFrame)
  /\ ~conditions.proximity
  /\ conditions.speedIncrease
  /\ conditions.directionChange
  /\ conditions.movingAway
  /\ shotOut.isShot

\* C10: the frames a session produces (ball position, isShot, shotType) are
\* those the same session produces when nothing ran before it.
C10_SessionsIsolated ==
  /\ previousFrame.ball = isolatedFrame.ball
  /\ previousFrame.isShot = isolatedFrame.isShot
  /\ previousFrame.shotType = isolatedFrame.shotType

(***************************************************************************)
(* Claims about the frame loops                                            *)
(***************************************************************************)

\* C11: a frame whose detector call failed does not stop the sequence: the
\* loop stays scheduled for the later frames.
C11_FailedFrameDoesNotStop == (lastOutcome = "failed") => scheduled

\* C12: the frames reach trackFrame one at a time and in increasing order:
\* at most one call is in flight, it was given the frame pushed last, and
\* every pushed frame was computed against the frame pushed just before it
\* (the initial frame for the first), which has a smaller frame id.
C12_OneFrameAtATime ==
  /\ Len(calls) <= 1
  /\ \A i \in 1..Len(calls) : calls[i].previousFrame = previousFrame
  /\ \A i \in 1..Len(pushedFrames) :
        /\ pushedFrames[i].against = (IF i = 1 THEN 0
                                ELSE pushedFrames[i - 1].frameId)
        /\ pushedFrames[i].frameId > pushedFrames[i].against

\* a frame was pushed, the next was skipped, and the call for the one after
\* is in flight
C12_Witness ==
  /\ Len(pushedFrames) = 1
  /\ Len(calls) = 1
  /\ calls[1].frameIndex > pushedFrames[1].frameId + 1

(***************************************************************************)
(* Claims about the movement statistics and the summaries                  *)
(***************************************************************************)
Finite(q) == q.den # 0

\* C13: whatever the elapsed time between two consecutive samples, no
\* infinite or undefined speed enters maxSpeed, avgSpeed or the events.
C13_NoUndefinedSpeed ==
  statsDone =>
    /\ Finite(stats.maxSpeed)
    /\ Finite(stats.avgSpeed)
    /\ \A i \in 1..Len(stats.events) : Finite(stats.events[i].value)

(***************************************************************************)
(* Claims about ByteTracker.update on boxes of any size                    *)
(***************************************************************************)
BoxArea(bbox) == bbox[3] * bbox[4]

\* the detection with index d of the last update was matched to a track
WasMatched(d) ==
  \E i \in 1..Len(matchResults.matches) : matchResults.matches[i][1] = d

\* the detection with index d of the last update created a track
CreatedTrack(d) ==
  /\ ~WasMatched(d)
  /\ \E i \in 1..Len(tracks) :
        /\ tracks[i].track_id \notin Ids(before)
        /\ tracks[i].bbox = detections[d].bbox

\* C14: a detection whose box area is below min_box_area creates no track
\* and updates no track.
C14_SmallBoxIgnored ==
  \A d \in 1..Len(detections) :
    BoxArea(detections[d].bbox) < min_box_area =>
      ~WasMatched(d) /\ ~CreatedTrack(d)

NegativeSize(bbox) == bbox[3] < 0 \/ bbox[4] < 0
HasValidSize(detection) == ~NegativeSize(detection.bbox)

\* the track list an update leaves, from the list ts and the id counter
\* count it starts with
TracksAfterUpdate(ts, count, dets) ==
  LET a == AgeTracks(ts)
      m == matchDetectionsToTracks(a, dets)
      u == UpdateMatched(a, dets, m.matches)
      c == CreateTracks(u, count, dets, m.unmatchedDetections, 1)
  IN RemoveDeleted(c.tracks)

\* number of tracks the last update created
CreatedCount ==
  Cardinality({i \in 1..Len(tracks) : tracks[i].track_id \notin Ids(before)})

\* C15: a detection with a negative width or height is dropped: it is not
\* matched, it creates no track, and the update leaves the tracks it would
\* leave without that detection.
C15_NegativeBoxDropped ==
  /\ \A d \in 1..Len(detections) :
        NegativeSize(detections[d].bbox) => ~WasMatched(d) /\ ~CreatedTrack(d)
  /\ tracks = TracksAfterUpdate(before, track_id_count - CreatedCount,
                                SelectSeq(detections, HasValidSize))

\* C19: the age of a live track is the number of update calls since the one
\* that created it, that one included.
C19_AgeCountsFrames ==
  \A i \in 1..Len(tracks) :
    tracks[i].age = frame - createdAt[tracks[i].track_id] + 1

\* C20: a track that the ageing step of an update marks deleted is matched to
\* no detection of that update and is left as the ageing step left it.
C20_DeletedNotMatched ==
  \A i \in 1..Len(aged) :
    aged[i].state = "deleted" =>
      /\ \A k \in 1..Len(matchResults.matches) : matchResults.matches[k][2] # i
      /\ updated[i] = aged[i]


(***************************************************************************)
(* Claims about generateAdvancedAnalysisResult                             *)
(***************************************************************************)
\* the frames with every record of another player removed
OnlyPlayer(frames, playerId) ==
  [i \in 1..Len(frames) |->
     [frames[i] EXCEPT
        !.players = SelectSeq(@, LAMBDA p : p.id = playerId)]]

DistinctIds(frames) ==
  UNION { { frames[i].players[j].id : j \in 1..Len(frames[i].players) }
          : i \in 1..Len(frames) }

\* the id of the first player of the first frame that holds a player
FirstSeen(frames) ==
  LET i == CHOOSE k \in 1..Len(frames) :
             /\ frames[k].players # <<>>
             /\ \A j \in 1..(k - 1) : frames[j].players = <<>>
  IN frames[i].players[1].id

\* the statistics of an entry that are derived from positions
PositionStats(entry) ==
  [id |-> entry.id,
   averageSpeed |-> entry.averageSpeed,
   maxSpeed |-> entry.maxSpeed,
   totalDistanceCovered |-> entry.totalDistanceCovered,
   positionHeatmap |-> entry.positionHeatmap]

OneEntryPerId ==
  LET all == advancedResult.allPlayers
  IN /\ { all[i].id : i \in 1..Len(all) } = DistinctIds(advancedFrames)
     /\ Len(all) = Cardinality(DistinctIds(advancedFrames))

PrimaryIsFirstSeen ==
  LET all == advancedResult.allPlayers
  IN DistinctIds(advancedFrames) # {} =>
       /\ advancedResult.playerStats.id = FirstSeen(advancedFrames)
       /\ \E i \in 1..Len(all) : all[i] = advancedResult.playerStats

C18_CoverageFromHeatmap ==
  advancedDone =>
    LET heatmap == advancedResult.playerStats.positionHeatmap
    IN advancedResult.courtCoverage * HeatmapCells =
         100 * Cardinality({ c \in DOMAIN heatmap : heatmap[c] > 0 })


(***************************************************************************)
(* Claims about generateAnalysisResult                                     *)
(***************************************************************************)
\* C17: the average player speed of the summary is the sum of the per-frame
\* player speeds divided by the number of frames, and the maximum speed is
\* the largest of them.
C17_AverageIsMean ==
  (summaryDone /\ summaryFrames # <<>>) =>
    /\ QMul(summaryResult.playerStats.averageSpeed,
            QInt(Len(summaryFrames)))
         = QSum([i \in 1..Len(summaryFrames) |->
                   summaryFrames[i].playerSpeed])
    /\ summaryResult.playerStats.maxSpeed
         = QMaxOf([i \in 1..Len(summaryFrames) |->
                     summaryFrames[i].playerSpeed])

(***************************************************************************)
(* Claims about the matching of one update                                 *)
(***************************************************************************)
\* the tracks taken by the detections before detection d
TakenBefore(d) ==
  { matchResults.matches[j][2] :
      j \in { k \in 1..Len(matchResults.matches) :
                matchResults.matches[k][1] < d } }

MatchIou(d, t) == iou(detections[d].bbox, aged[t].bbox)

\* C21: within one update no track is matched to two detections and no
\* detection to two tracks; detections are served in input order, each taking
\* the not-yet-taken track of highest IoU >= match_thresh, and a detection
\* without a match has no not-yet-taken track with IoU >= match_thresh.
C21_GreedyInInputOrder ==
  LET matches == matchResults.matches
  IN /\ \A i, j \in 1..Len(matches) :
          i < j => /\ matches[i][1] < matches[j][1]
                   /\ matches[i][2] # matches[j][2]
     /\ \A k \in 1..Len(matches) :
          LET d == matches[k][1]
              t == matches[k][2]
          IN /\ t \notin TakenBefore(d)
             /\ Geq(MatchIou(d, t), match_thresh)
             /\ \A t2 \in (1..Len(aged)) \ TakenBefore(d) :
                  Geq(MatchIou(d, t), MatchIou(d, t2))
     /\ \A d \in 1..Len(detections) :
          (\A k \in 1..Len(matches) : matches[k][1] # d) =>
            \A t \in (1..Len(aged)) \ TakenBefore(d) :
              ~Geq(MatchIou(d, t), match_thresh)

\* the first detection took a track that the second detection overlaps more
C21_Witness ==
  /\ Len(detections) = 2
  /\ \E k \in 1..Len(matchResults.matches) :
       /\ matchResults.matches[k][1] = 1
       /\ QGt(MatchIou(2, matchResults.matches[k][2]),
              MatchIou(1, matchResults.matches[k][2]))
  /\ \A k \in 1..Len(matchResults.matches) : matchResults.matches[k][1] # 2

\* the tracks of before, one frame older, that are within track_buffer
OlderWithinBuffer ==
  SelectSeq([i \in 1..Len(before) |->
               [before[i] EXCEPT !.time_since_update = @ + 1]],
            LAMBDA t : t.time_since_update <= track_buffer)

\* C22: update with an empty detection list only ages the tracks: every
\* surviving track keeps all its fields but time_since_update, which grows by
\* 1, no track is created, exactly the tracks whose time_since_update exceeds
\* track_buffer are removed, and a tracker with no tracks returns no track.
C22_EmptyFrameOnlyAges ==
  (frame > 0 /\ detections = <<>>) =>
    /\ tracks = OlderWithinBuffer
    /\ matchResults.matches = <<>>
    /\ before = <<>> => result = <<>>

\* an empty frame after which one track survives and another is removed
C22_Witness ==
  /\ frame > 0
  /\ detections = <<>>
  /\ Len(tracks) = 1
  /\ Len(before) = 2
  /\ tracks[1].time_since_update > 0

(***************************************************************************)
(* Claims about the events of MovementAnalyzer.calculateStats              *)
(***************************************************************************)
\* the speed in m/s between sample i and sample i + 1
PairSpeed(i) ==
  LET dx == Q(coordinates[i + 1].x - coordinates[i].x, PIXELS_PER_METER)
      dy == Q(coordinates[i + 1].y - coordinates[i].y, PIXELS_PER_METER)
  IN QDiv(QSqrt(QAdd(QMul(dx, dx), QMul(dy, dy))),
          Q(coordinates[i + 1].timestamp - coordinates[i].timestamp, 1000))

\* the direction in degrees of the move from sample i to sample i + 1, 0
\* before the first move
PairDirection(i) ==
  IF i = 0 THEN 0
  ELSE Atan2Deg(QInt(coordinates[i + 1].y - coordinates[i].y),
                QInt(coordinates[i + 1].x - coordinates[i].x))

PairDirectionChange(i) == Abs(PairDirection(i) - PairDirection(i - 1))

IsSprint(i) == QGt(PairSpeed(i), QInt(SPRINT_THRESHOLD))
IsStop(i) == QLt(PairSpeed(i), STOP_THRESHOLD)
IsTurn(i) == PairDirectionChange(i) > DIRECTION_CHANGE_THRESHOLD

\* C23: calculateStats emits one event per pair of consecutive samples, and
\* its type is the first condition that holds in the order sprint, stop,
\* change_direction, steady.
C23_FirstConditionWins ==
  statsDone =>
    /\ Len(stats.events) = Max(Len(coordinates) - 1, 0)
    /\ \A i \in 1..Len(stats.events) :
         /\ stats.events[i].timestamp = coordinates[i + 1].timestamp
         /\ stats.events[i].type = "sprint" <=> IsSprint(i)
         /\ stats.events[i].type = "stop" <=> ~IsSprint(i) /\ IsStop(i)
         /\ stats.events[i].type = "change_direction" <=>
              ~IsSprint(i) /\ ~IsStop(i) /\ IsTurn(i)
         /\ stats.events[i].type = "steady" <=>
              ~IsSprint(i) /\ ~IsStop(i) /\ ~IsTurn(i)

\* a sprint and a stop were emitted for pairs that also turn
C23_Witness ==
  /\ statsDone
  /\ \E i \in 1..Len(stats.events) :
       stats.events[i].type = "sprint" /\ IsTurn(i)
  /\ \E i \in 1..Len(stats.events) :
       stats.events[i].type = "stop" /\ IsTurn(i)

\* C24: a sprint event is emitted only on a rising edge and after the
\* debounce interval: the pair before was not above the sprint threshold and
\* at least 500 ms have passed since the event emitted before.
C24_SprintOnRisingEdge ==
  statsDone =>
    \A i \in 2..Len(stats.events) :
      stats.events[i].type = "sprint" =>
        /\ ~IsSprint(i - 1)
        /\ stats.events[i].timestamp - stats.events[i - 1].timestamp >= 500

(***************************************************************************)
(* Claims about the conditions of detectShot and the predicted ball        *)
(***************************************************************************)
\* C25: the proximity condition of detectShot is true exactly when the
\* distance stored in the previous frame is below the distance threshold, a
\* stored distance of 0 included.
C25_ProximityBelowThreshold ==
  (shotDone /\ ~Missing(previousFrame, currentFrame)) =>
    (conditions.proximity <=>
       QLt(previousFrame.distanceSq,
           QInt(SHOT_DETECTION_DISTANCE_THRESHOLD
                  * SHOT_DETECTION_DISTANCE_THRESHOLD)))

\* the balls of the last response that the tracker accepts
AcceptableBalls ==
  { i \in 1..Len(lastResponse.ballPredictions) :
      /\ lastResponse.ballPredictions[i].class = "tennis ball"
      /\ lastResponse.ballPredictions[i].confidence > MIN_BALL_CONFIDENCE }

IsPrefix(shorter, longer) ==
  /\ Len(shorter) <= Len(longer)
  /\ SubSeq(longer, 1, Len(shorter)) = shorter

\* C26: the ball of a frame is an accepted detection whenever the response
\* holds one; without one it is the ball predicted from the last three
\* trajectory points when the history holds at least 3 positions, carrying
\* confidence MIN_BALL_CONFIDENCE, below every accepted detection, and
\* otherwise the ball of the previous frame; only an accepted detection is
\* appended to the trajectory history.
C26_PredictedOnlyWithoutDetection ==
  tracked =>
    LET ball == previousFrame.ball
    IN IF ~lastResponse.failed /\ AcceptableBalls # {}
       THEN /\ \E i \in AcceptableBalls :
                 /\ ball = ObjOfPred(lastResponse.ballPredictions[i])
                 /\ ball.confidence > MIN_BALL_CONFIDENCE
                 /\ \A j \in AcceptableBalls :
                      lastResponse.ballPredictions[j].confidence
                        <= ball.confidence
            /\ Len(recentBallTrajectory) > 0
            /\ LET point == recentBallTrajectory[Len(recentBallTrajectory)]
               IN /\ point.x = ball.centerX.num
                  /\ point.y = ball.centerY.num
                  /\ point.timestamp = previousFrame.timestamp
            /\ IsPrefix(SubSeq(recentBallTrajectory, 1,
                               Len(recentBallTrajectory) - 1),
                        trajectoryBefore)
       ELSE /\ recentBallTrajectory = trajectoryBefore
            /\ IF ~lastResponse.failed /\ Len(trajectoryBefore) >= 3
               THEN /\ ball = predictBallFromTrajectory(
                                trajectoryBefore, previousFrame.timestamp)
                    /\ ball.confidence = MIN_BALL_CONFIDENCE
               ELSE ball = frameBefore.ball

\* a predicted ball was emitted: no acceptable ball in the response, three
\* positions in the history, and the ball is not that of the frame before
C26_Witness ==
  /\ tracked
  /\ ~lastResponse.failed
  /\ AcceptableBalls = {}
  /\ Len(trajectoryBefore) >= 3
  /\ previousFrame.ball.confidence = MIN_BALL_CONFIDENCE
  /\ previousFrame.ball # frameBefore.ball

(***************************************************************************)
(* Claims about the calibration factor                                     *)
(***************************************************************************)
\* the pixels the court width is assumed to span: the whole video width for
\* the plain tracker, half of it for the advanced one
PixelSpan ==
  IF calibrationInput.tracker = "plain"
  THEN QInt(calibrationInput.videoWidth)
  ELSE Q(calibrationInput.videoWidth, 2)

\* C27: the calibration factor is the reference length (the court width in
\* metres) divided by its pixel span, and the distance of a move is its pixel
\* distance multiplied by that factor.
C27_FactorIsLengthPerPixel ==
  calibrationDone =>
    /\ calibrationOut.pixelsToMeters = QDiv(COURT_WIDTH_METERS, PixelSpan)
    /\ calibrationOut.distance =
         QMul(QInt(calibrationInput.move),
              QDiv(COURT_WIDTH_METERS, PixelSpan))

(***************************************************************************)
(* Claims about the detections of one update                               *)
(***************************************************************************)
\* C28: after every update each detection with confidence >= track_thresh is
\* represented by a returned track that carries the detection's bbox.
C28_NoDetectionLost ==
  frame > 0 =>
    \A d \in 1..Len(detections) :
      detections[d].confidence >= track_thresh =>
        \E t \in 1..Len(result) : result[t].bbox = detections[d].bbox

C30_DistinctPlayerIds ==
  (advancedCalls > 0 /\ ~detectionFailed
     /\ Len(playerDetections(detectedObjects)) > 0) =>
    \A i, j \in 1..Len(advancedFrame.players) :
      advancedFrame.players[i].id = advancedFrame.players[j].id => i = j

====
